---- MODULE Spec2Model ----
(***************************************************************************)
(* Wire schema of the a2a / ap2 protocol types (common/protocol/types.py). *)
(* The declarations of the source are TypedDict classes validated and      *)
(* serialised by pydantic: decoding is validation of a JSON value against  *)
(* a declared type, encoding is serialisation by alias.  The model keeps   *)
(* the declarations as schema tables and gives the validation and the      *)
(* serialisation rules as operators over JSON values.                      *)
(***************************************************************************)
EXTENDS Integers, Sequences, FiniteSets, TLC

VARIABLES op, raw, res, task, before, pending, stmt, looked, namespace, raised

\* the state of the initialisation of the module
import_vars == <<stmt, looked, namespace, raised>>

vars == <<op, raw, res, task, before, pending, stmt, looked, namespace, raised>>

(***************************************************************************)
(* The alias generator works on the characters of a field name.  K spells  *)
(* every name used on either side of the wire; keys are the names.         *)
(***************************************************************************)
K ==
  [
    acceptedOutputModes |-> <<"a","c","c","e","p","t","e","d","O","u","t","p","u","t","M","o","d","e","s">>,
    accepted_output_modes |-> <<"a","c","c","e","p","t","e","d","_","o","u","t","p","u","t","_","m","o","d","e","s">>,
    additionalDisplayItems |-> <<"a","d","d","i","t","i","o","n","a","l","D","i","s","p","l","a","y","I","t","e","m","s">>,
    additional_display_items |-> <<"a","d","d","i","t","i","o","n","a","l","_","d","i","s","p","l","a","y","_","i","t","e","m","s">>,
    addressLine |-> <<"a","d","d","r","e","s","s","L","i","n","e">>,
    address_line |-> <<"a","d","d","r","e","s","s","_","l","i","n","e">>,
    agentId |-> <<"a","g","e","n","t","I","d">>,
    agentName |-> <<"a","g","e","n","t","N","a","m","e">>,
    agent_id |-> <<"a","g","e","n","t","_","i","d">>,
    agent_name |-> <<"a","g","e","n","t","_","n","a","m","e">>,
    amount |-> <<"a","m","o","u","n","t">>,
    append |-> <<"a","p","p","e","n","d">>,
    artifact |-> <<"a","r","t","i","f","a","c","t">>,
    artifactId |-> <<"a","r","t","i","f","a","c","t","I","d">>,
    artifact_id |-> <<"a","r","t","i","f","a","c","t","_","i","d">>,
    artifacts |-> <<"a","r","t","i","f","a","c","t","s">>,
    authentication |-> <<"a","u","t","h","e","n","t","i","c","a","t","i","o","n">>,
    bearerFormat |-> <<"b","e","a","r","e","r","F","o","r","m","a","t">>,
    bearer_format |-> <<"b","e","a","r","e","r","_","f","o","r","m","a","t">>,
    blocking |-> <<"b","l","o","c","k","i","n","g">>,
    bogus |-> <<"b","o","g","u","s">>,
    bytes |-> <<"b","y","t","e","s">>,
    cartExpiry |-> <<"c","a","r","t","E","x","p","i","r","y">>,
    cart_expiry |-> <<"c","a","r","t","_","e","x","p","i","r","y">>,
    city |-> <<"c","i","t","y">>,
    code |-> <<"c","o","d","e">>,
    configuration |-> <<"c","o","n","f","i","g","u","r","a","t","i","o","n">>,
    contents |-> <<"c","o","n","t","e","n","t","s">>,
    contextId |-> <<"c","o","n","t","e","x","t","I","d">>,
    context_id |-> <<"c","o","n","t","e","x","t","_","i","d">>,
    country |-> <<"c","o","u","n","t","r","y">>,
    createdAt |-> <<"c","r","e","a","t","e","d","A","t">>,
    created_at |-> <<"c","r","e","a","t","e","d","_","a","t">>,
    creatorDid |-> <<"c","r","e","a","t","o","r","D","i","d">>,
    creator_did |-> <<"c","r","e","a","t","o","r","_","d","i","d">>,
    credentials |-> <<"c","r","e","d","e","n","t","i","a","l","s">>,
    creditsCharged |-> <<"c","r","e","d","i","t","s","C","h","a","r","g","e","d">>,
    creditsPerRequest |-> <<"c","r","e","d","i","t","s","P","e","r","R","e","q","u","e","s","t">>,
    credits_charged |-> <<"c","r","e","d","i","t","s","_","c","h","a","r","g","e","d">>,
    credits_per_request |-> <<"c","r","e","d","i","t","s","_","p","e","r","_","r","e","q","u","e","s","t">>,
    currency |-> <<"c","u","r","r","e","n","c","y">>,
    data |-> <<"d","a","t","a">>,
    dependentLocality |-> <<"d","e","p","e","n","d","e","n","t","L","o","c","a","l","i","t","y">>,
    dependent_locality |-> <<"d","e","p","e","n","d","e","n","t","_","l","o","c","a","l","i","t","y">>,
    description |-> <<"d","e","s","c","r","i","p","t","i","o","n">>,
    details |-> <<"d","e","t","a","i","l","s">>,
    displayItems |-> <<"d","i","s","p","l","a","y","I","t","e","m","s">>,
    display_items |-> <<"d","i","s","p","l","a","y","_","i","t","e","m","s">>,
    embeddings |-> <<"e","m","b","e","d","d","i","n","g","s">>,
    error |-> <<"e","r","r","o","r">>,
    errorMessage |-> <<"e","r","r","o","r","M","e","s","s","a","g","e">>,
    error_message |-> <<"e","r","r","o","r","_","m","e","s","s","a","g","e">>,
    estimatedCredits |-> <<"e","s","t","i","m","a","t","e","d","C","r","e","d","i","t","s">>,
    estimated_credits |-> <<"e","s","t","i","m","a","t","e","d","_","c","r","e","d","i","t","s">>,
    executionId |-> <<"e","x","e","c","u","t","i","o","n","I","d">>,
    executionTime |-> <<"e","x","e","c","u","t","i","o","n","T","i","m","e">>,
    execution_id |-> <<"e","x","e","c","u","t","i","o","n","_","i","d">>,
    execution_time |-> <<"e","x","e","c","u","t","i","o","n","_","t","i","m","e">>,
    executorDid |-> <<"e","x","e","c","u","t","o","r","D","i","d">>,
    executor_did |-> <<"e","x","e","c","u","t","o","r","_","d","i","d">>,
    extensions |-> <<"e","x","t","e","n","s","i","o","n","s">>,
    feedback |-> <<"f","e","e","d","b","a","c","k">>,
    file |-> <<"f","i","l","e">>,
    final |-> <<"f","i","n","a","l">>,
    flows |-> <<"f","l","o","w","s">>,
    fromAgent |-> <<"f","r","o","m","A","g","e","n","t">>,
    from_agent |-> <<"f","r","o","m","_","a","g","e","n","t">>,
    history |-> <<"h","i","s","t","o","r","y">>,
    historyLength |-> <<"h","i","s","t","o","r","y","L","e","n","g","t","h">>,
    history_length |-> <<"h","i","s","t","o","r","y","_","l","e","n","g","t","h">>,
    id |-> <<"i","d">>,
    in |-> <<"i","n">>,
    in_ |-> <<"i","n","_">>,
    inputData |-> <<"i","n","p","u","t","D","a","t","a">>,
    input_data |-> <<"i","n","p","u","t","_","d","a","t","a">>,
    intentExpiry |-> <<"i","n","t","e","n","t","E","x","p","i","r","y">>,
    intent_expiry |-> <<"i","n","t","e","n","t","_","e","x","p","i","r","y">>,
    jsonrpc |-> <<"j","s","o","n","r","p","c">>,
    kind |-> <<"k","i","n","d">>,
    label |-> <<"l","a","b","e","l">>,
    lastChunk |-> <<"l","a","s","t","C","h","u","n","k">>,
    last_chunk |-> <<"l","a","s","t","_","c","h","u","n","k">>,
    merchantAgent |-> <<"m","e","r","c","h","a","n","t","A","g","e","n","t">>,
    merchantAuthorization |-> <<"m","e","r","c","h","a","n","t","A","u","t","h","o","r","i","z","a","t","i","o","n">>,
    merchantName |-> <<"m","e","r","c","h","a","n","t","N","a","m","e">>,
    merchant_agent |-> <<"m","e","r","c","h","a","n","t","_","a","g","e","n","t">>,
    merchant_authorization |-> <<"m","e","r","c","h","a","n","t","_","a","u","t","h","o","r","i","z","a","t","i","o","n">>,
    merchant_name |-> <<"m","e","r","c","h","a","n","t","_","n","a","m","e">>,
    merchants |-> <<"m","e","r","c","h","a","n","t","s">>,
    message |-> <<"m","e","s","s","a","g","e">>,
    messageId |-> <<"m","e","s","s","a","g","e","I","d">>,
    message_id |-> <<"m","e","s","s","a","g","e","_","i","d">>,
    metadata |-> <<"m","e","t","a","d","a","t","a">>,
    method |-> <<"m","e","t","h","o","d">>,
    methodData |-> <<"m","e","t","h","o","d","D","a","t","a">>,
    methodName |-> <<"m","e","t","h","o","d","N","a","m","e">>,
    method_data |-> <<"m","e","t","h","o","d","_","d","a","t","a">>,
    method_name |-> <<"m","e","t","h","o","d","_","n","a","m","e">>,
    mimeType |-> <<"m","i","m","e","T","y","p","e">>,
    minimumTrustLevel |-> <<"m","i","n","i","m","u","m","T","r","u","s","t","L","e","v","e","l">>,
    minimum_trust_level |-> <<"m","i","n","i","m","u","m","_","t","r","u","s","t","_","l","e","v","e","l">>,
    modifiers |-> <<"m","o","d","i","f","i","e","r","s">>,
    name |-> <<"n","a","m","e">>,
    naturalLanguageDescription |-> <<"n","a","t","u","r","a","l","L","a","n","g","u","a","g","e","D","e","s","c","r","i","p","t","i","o","n">>,
    natural_language_description |-> <<"n","a","t","u","r","a","l","_","l","a","n","g","u","a","g","e","_","d","e","s","c","r","i","p","t","i","o","n">>,
    openIdConnectUrl |-> <<"o","p","e","n","I","d","C","o","n","n","e","c","t","U","r","l">>,
    open_id_connect_url |-> <<"o","p","e","n","_","i","d","_","c","o","n","n","e","c","t","_","u","r","l">>,
    options |-> <<"o","p","t","i","o","n","s">>,
    organization |-> <<"o","r","g","a","n","i","z","a","t","i","o","n">>,
    outputData |-> <<"o","u","t","p","u","t","D","a","t","a">>,
    output_data |-> <<"o","u","t","p","u","t","_","d","a","t","a">>,
    params |-> <<"p","a","r","a","m","s">>,
    parentContextId |-> <<"p","a","r","e","n","t","C","o","n","t","e","x","t","I","d">>,
    parent_context_id |-> <<"p","a","r","e","n","t","_","c","o","n","t","e","x","t","_","i","d">>,
    participants |-> <<"p","a","r","t","i","c","i","p","a","n","t","s">>,
    parts |-> <<"p","a","r","t","s">>,
    payerEmail |-> <<"p","a","y","e","r","E","m","a","i","l">>,
    payerName |-> <<"p","a","y","e","r","N","a","m","e">>,
    payerPhone |-> <<"p","a","y","e","r","P","h","o","n","e">>,
    payer_email |-> <<"p","a","y","e","r","_","e","m","a","i","l">>,
    payer_name |-> <<"p","a","y","e","r","_","n","a","m","e">>,
    payer_phone |-> <<"p","a","y","e","r","_","p","h","o","n","e">>,
    paymentDetailsId |-> <<"p","a","y","m","e","n","t","D","e","t","a","i","l","s","I","d">>,
    paymentDetailsTotal |-> <<"p","a","y","m","e","n","t","D","e","t","a","i","l","s","T","o","t","a","l">>,
    paymentMandateContents |-> <<"p","a","y","m","e","n","t","M","a","n","d","a","t","e","C","o","n","t","e","n","t","s">>,
    paymentMandateId |-> <<"p","a","y","m","e","n","t","M","a","n","d","a","t","e","I","d">>,
    paymentRequest |-> <<"p","a","y","m","e","n","t","R","e","q","u","e","s","t">>,
    paymentResponse |-> <<"p","a","y","m","e","n","t","R","e","s","p","o","n","s","e">>,
    payment_details_id |-> <<"p","a","y","m","e","n","t","_","d","e","t","a","i","l","s","_","i","d">>,
    payment_details_total |-> <<"p","a","y","m","e","n","t","_","d","e","t","a","i","l","s","_","t","o","t","a","l">>,
    payment_mandate_contents |-> <<"p","a","y","m","e","n","t","_","m","a","n","d","a","t","e","_","c","o","n","t","e","n","t","s">>,
    payment_mandate_id |-> <<"p","a","y","m","e","n","t","_","m","a","n","d","a","t","e","_","i","d">>,
    payment_request |-> <<"p","a","y","m","e","n","t","_","r","e","q","u","e","s","t">>,
    payment_response |-> <<"p","a","y","m","e","n","t","_","r","e","s","p","o","n","s","e">>,
    pending |-> <<"p","e","n","d","i","n","g">>,
    phoneNumber |-> <<"p","h","o","n","e","N","u","m","b","e","r">>,
    phone_number |-> <<"p","h","o","n","e","_","n","u","m","b","e","r">>,
    postalCode |-> <<"p","o","s","t","a","l","C","o","d","e">>,
    postal_code |-> <<"p","o","s","t","a","l","_","c","o","d","e">>,
    proposalId |-> <<"p","r","o","p","o","s","a","l","I","d">>,
    proposal_id |-> <<"p","r","o","p","o","s","a","l","_","i","d">>,
    proposals |-> <<"p","r","o","p","o","s","a","l","s">>,
    pushNotificationConfig |-> <<"p","u","s","h","N","o","t","i","f","i","c","a","t","i","o","n","C","o","n","f","i","g">>,
    pushNotificationConfigId |-> <<"p","u","s","h","N","o","t","i","f","i","c","a","t","i","o","n","C","o","n","f","i","g","I","d">>,
    push_notification_config |-> <<"p","u","s","h","_","n","o","t","i","f","i","c","a","t","i","o","n","_","c","o","n","f","i","g">>,
    push_notification_config_id |-> <<"p","u","s","h","_","n","o","t","i","f","i","c","a","t","i","o","n","_","c","o","n","f","i","g","_","i","d">>,
    rating |-> <<"r","a","t","i","n","g">>,
    recipient |-> <<"r","e","c","i","p","i","e","n","t">>,
    referenceContextIds |-> <<"r","e","f","e","r","e","n","c","e","C","o","n","t","e","x","t","I","d","s">>,
    referenceTaskIds |-> <<"r","e","f","e","r","e","n","c","e","T","a","s","k","I","d","s">>,
    reference_context_ids |-> <<"r","e","f","e","r","e","n","c","e","_","c","o","n","t","e","x","t","_","i","d","s">>,
    reference_task_ids |-> <<"r","e","f","e","r","e","n","c","e","_","t","a","s","k","_","i","d","s">>,
    refundPeriod |-> <<"r","e","f","u","n","d","P","e","r","i","o","d">>,
    refund_period |-> <<"r","e","f","u","n","d","_","p","e","r","i","o","d">>,
    region |-> <<"r","e","g","i","o","n">>,
    requestId |-> <<"r","e","q","u","e","s","t","I","d">>,
    requestPayerEmail |-> <<"r","e","q","u","e","s","t","P","a","y","e","r","E","m","a","i","l">>,
    requestPayerName |-> <<"r","e","q","u","e","s","t","P","a","y","e","r","N","a","m","e">>,
    requestPayerPhone |-> <<"r","e","q","u","e","s","t","P","a","y","e","r","P","h","o","n","e">>,
    requestShipping |-> <<"r","e","q","u","e","s","t","S","h","i","p","p","i","n","g">>,
    request_id |-> <<"r","e","q","u","e","s","t","_","i","d">>,
    request_payer_email |-> <<"r","e","q","u","e","s","t","_","p","a","y","e","r","_","e","m","a","i","l">>,
    request_payer_name |-> <<"r","e","q","u","e","s","t","_","p","a","y","e","r","_","n","a","m","e">>,
    request_payer_phone |-> <<"r","e","q","u","e","s","t","_","p","a","y","e","r","_","p","h","o","n","e">>,
    request_shipping |-> <<"r","e","q","u","e","s","t","_","s","h","i","p","p","i","n","g">>,
    requiresRefundability |-> <<"r","e","q","u","i","r","e","s","R","e","f","u","n","d","a","b","i","l","i","t","y">>,
    requires_refundability |-> <<"r","e","q","u","i","r","e","s","_","r","e","f","u","n","d","a","b","i","l","i","t","y">>,
    result |-> <<"r","e","s","u","l","t">>,
    role |-> <<"r","o","l","e">>,
    scheme |-> <<"s","c","h","e","m","e">>,
    schemes |-> <<"s","c","h","e","m","e","s">>,
    selected |-> <<"s","e","l","e","c","t","e","d">>,
    shippingAddress |-> <<"s","h","i","p","p","i","n","g","A","d","d","r","e","s","s">>,
    shippingOption |-> <<"s","h","i","p","p","i","n","g","O","p","t","i","o","n">>,
    shippingOptions |-> <<"s","h","i","p","p","i","n","g","O","p","t","i","o","n","s">>,
    shippingType |-> <<"s","h","i","p","p","i","n","g","T","y","p","e">>,
    shipping_address |-> <<"s","h","i","p","p","i","n","g","_","a","d","d","r","e","s","s">>,
    shipping_option |-> <<"s","h","i","p","p","i","n","g","_","o","p","t","i","o","n">>,
    shipping_options |-> <<"s","h","i","p","p","i","n","g","_","o","p","t","i","o","n","s">>,
    shipping_type |-> <<"s","h","i","p","p","i","n","g","_","t","y","p","e">>,
    skus |-> <<"s","k","u","s">>,
    sortingCode |-> <<"s","o","r","t","i","n","g","C","o","d","e">>,
    sorting_code |-> <<"s","o","r","t","i","n","g","_","c","o","d","e">>,
    state |-> <<"s","t","a","t","e">>,
    status |-> <<"s","t","a","t","u","s">>,
    success |-> <<"s","u","c","c","e","s","s">>,
    supportedMethods |-> <<"s","u","p","p","o","r","t","e","d","M","e","t","h","o","d","s">>,
    supported_methods |-> <<"s","u","p","p","o","r","t","e","d","_","m","e","t","h","o","d","s">>,
    tags |-> <<"t","a","g","s">>,
    taskId |-> <<"t","a","s","k","I","d">>,
    task_id |-> <<"t","a","s","k","_","i","d">>,
    tasks |-> <<"t","a","s","k","s">>,
    terms |-> <<"t","e","r","m","s">>,
    text |-> <<"t","e","x","t">>,
    timestamp |-> <<"t","i","m","e","s","t","a","m","p">>,
    toAgent |-> <<"t","o","A","g","e","n","t">>,
    to_agent |-> <<"t","o","_","a","g","e","n","t">>,
    token |-> <<"t","o","k","e","n">>,
    total |-> <<"t","o","t","a","l">>,
    transactionId |-> <<"t","r","a","n","s","a","c","t","i","o","n","I","d">>,
    transaction_id |-> <<"t","r","a","n","s","a","c","t","i","o","n","_","i","d">>,
    trustLevel |-> <<"t","r","u","s","t","L","e","v","e","l">>,
    trust_level |-> <<"t","r","u","s","t","_","l","e","v","e","l">>,
    type |-> <<"t","y","p","e">>,
    updatedAt |-> <<"u","p","d","a","t","e","d","A","t">>,
    updated_at |-> <<"u","p","d","a","t","e","d","_","a","t">>,
    uri |-> <<"u","r","i">>,
    url |-> <<"u","r","l">>,
    userAuthorization |-> <<"u","s","e","r","A","u","t","h","o","r","i","z","a","t","i","o","n">>,
    userCartConfirmationRequired |-> <<"u","s","e","r","C","a","r","t","C","o","n","f","i","r","m","a","t","i","o","n","R","e","q","u","i","r","e","d">>,
    user_authorization |-> <<"u","s","e","r","_","a","u","t","h","o","r","i","z","a","t","i","o","n">>,
    user_cart_confirmation_required |-> <<"u","s","e","r","_","c","a","r","t","_","c","o","n","f","i","r","m","a","t","i","o","n","_","r","e","q","u","i","r","e","d">>,
    value |-> <<"v","a","l","u","e">>
  ]

Lower == <<"a","b","c","d","e","f","g","h","i","j","k","l","m","n","o","p","q","r","s","t","u","v","w","x","y","z">>

Upper == <<"A","B","C","D","E","F","G","H","I","J","K","L","M","N","O","P","Q","R","S","T","U","V","W","X","Y","Z">>

Digit == <<"0","1","2","3","4","5","6","7","8","9">>

IsLower(c) == \E i \in DOMAIN Lower : Lower[i] = c

IsUpper(c) == \E i \in DOMAIN Upper : Upper[i] = c

IsDigit(c) == \E i \in DOMAIN Digit : Digit[i] = c

IsAlpha(c) == IsLower(c) \/ IsUpper(c)

IsAlnum(c) == IsAlpha(c) \/ IsDigit(c)

ToUpper(c) == IF IsLower(c) THEN Upper[CHOOSE i \in DOMAIN Lower : Lower[i] = c] ELSE c

ToLower(c) == IF IsUpper(c) THEN Lower[CHOOSE i \in DOMAIN Upper : Upper[i] = c] ELSE c

\* str.title(): the first letter of every run of letters in upper case, the
\* other letters of the run in lower case
title(s) ==
  [i \in DOMAIN s |->
     IF IsAlpha(s[i])
     THEN IF i > 1 /\ IsAlpha(s[i - 1]) THEN ToLower(s[i]) ELSE ToUpper(s[i])
     ELSE s[i]]

\* the subsequence of s at the positions in idx
SubSeqAt(s, idx) ==
  [j \in 1..Cardinality(idx) |->
     s[CHOOSE i \in idx : Cardinality({k \in idx : k < i}) = j - 1]]

\* re.sub('([0-9A-Za-z])_(?=[0-9A-Z])', group 1, snake.title())
DropUnderscores(camel) ==
  LET dropped(i) == /\ camel[i] = "_"
                    /\ i > 1
                    /\ i < Len(camel)
                    /\ IsAlnum(camel[i - 1])
                    /\ (IsDigit(camel[i + 1]) \/ IsUpper(camel[i + 1]))
  IN  SubSeqAt(camel, {i \in DOMAIN camel : ~dropped(i)})

\* pydantic.alias_generators.to_pascal
to_pascal(snake) == DropUnderscores(title(snake))

\* '^[a-z]+[A-Za-z0-9]*$' matches and no digit is followed by a lower-case letter
AlreadyCamel(s) ==
  /\ Len(s) > 0
  /\ IsLower(s[1])
  /\ \A i \in DOMAIN s : IsAlnum(s[i])
  /\ ~\E i \in DOMAIN s : i < Len(s) /\ IsDigit(s[i]) /\ IsLower(s[i + 1])

\* re.sub('(^_*[A-Z])', lower-cased match, camel)
LowerFirst(camel) ==
  LET lead == {i \in DOMAIN camel : \A j \in 1..i : camel[j] = "_"}
      first == Cardinality(lead) + 1
  IN  IF first <= Len(camel) /\ IsUpper(camel[first])
      THEN [camel EXCEPT ![first] = ToLower(camel[first])]
      ELSE camel

\* pydantic.alias_generators.to_camel
to_camel(snake) ==
  IF AlreadyCamel(snake) THEN snake ELSE LowerFirst(to_pascal(snake))

(***************************************************************************)
(* JSON values, and the values validation produces, are pairs <<tag, value>>: *)
(* x[1] is the tag and x[2] the payload.                                    *)
(***************************************************************************)
Str(s) == <<"s", s>>

Num(n) == <<"n", n>>

Bool(b) == <<"b", b>>

Obj(f) == <<"o", f>>

Arr(q) == <<"a", q>>

\* a validated UUID and a validated float are no longer JSON strings / numbers
Uuid(u) == <<"uuid", u>>

Float(n) == <<"f", n>>

Null == <<"null", "null">>

EmptyObj == Obj(<<>>)

Keys(o) == DOMAIN o[2]

Has(o, k) == o[1] = "o" /\ k \in DOMAIN o[2]

\* the outcome of a validation: the error types raised, and the value when none is
Ok(x) == [errs |-> {}, val |-> x]

Err(e) == [errs |-> {e}, val |-> Null]

Errs(es) == [errs |-> es, val |-> Null]

(***************************************************************************)
(* Type descriptors: what an annotation of the source says.                *)
(***************************************************************************)
TStr == [k |-> "str"]

TBool == [k |-> "bool"]

TInt == [k |-> "int"]

TFloat == [k |-> "float"]

TUuid == [k |-> "uuid"]

TAny == [k |-> "any"]

\* dict[str, Any]
TDict == [k |-> "dict"]

\* Dict[str, t]
TDictOf(t) == [k |-> "dictof", of |-> t]

\* Literal[...]
TLit(vals) == [k |-> "lit", vals |-> vals]

\* list[t]
TList(t) == [k |-> "list", of |-> t]

\* a TypedDict class, by name
TTd(e) == [k |-> "td", e |-> e]

\* Annotated[Union[...], Field(discriminator=d)]
TTagged(d, members) == [k |-> "tagged", disc |-> d, of |-> members]

\* a plain union of TypedDict classes (pydantic's smart mode)
TUnion(members) == [k |-> "union", of |-> members]

\* one annotated key of a TypedDict: Required[...] or NotRequired[...]
Req(n, ty) == [n |-> n, ty |-> ty, req |-> TRUE]

Opt(n, ty) == [n |-> n, ty |-> ty, req |-> FALSE]

FieldNames(fs) == {fs[i].n : i \in DOMAIN fs}

\* class Sub(Base): the annotations of Base, each replaced by the annotation
\* Sub gives for the same key, followed by the keys Sub adds
Inherit(base, own) ==
  LET kept == SelectSeq(base, LAMBDA f : f.n \notin FieldNames(own))
  IN  kept \o own

\* the enumeration with its last value left out
TaskState_without_bid_won ==
  { "submitted", "working", "input-required", "completed", "canceled",
    "failed", "rejected", "auth-required", "unknown",
    "trust-verification-required", "pending", "suspended", "resumed",
    "negotiation-bid-submitted", "negotiation-bid-lost" }

TaskState ==
  { "submitted", "working", "input-required", "completed", "canceled",
    "failed", "rejected", "auth-required", "unknown",
    "trust-verification-required", "pending", "suspended", "resumed",
    "negotiation-bid-submitted", "negotiation-bid-lost", "negotiation-bid-won" }

StrLits(S) == {Str(s) : s \in S}

(* ---------------- content and message parts ---------------- *)
\* TextPart with its text key not required
TextPart_fields_text_optional ==
  << Req("kind", TLit({Str("text")})),
     Opt("metadata", TDict),
     Opt("text", TStr),
     Opt("embeddings", TList(TFloat)) >>

TextPart_fields ==
  << Req("kind", TLit({Str("text")})),
     Opt("metadata", TDict),
     Req("text", TStr),
     Opt("embeddings", TList(TFloat)) >>

FileWithBytes_fields ==
  << Req("bytes", TStr),
     Opt("mimeType", TStr),
     Opt("name", TStr),
     Opt("embeddings", TList(TFloat)) >>

FileWithUri_fields ==
  Inherit(FileWithBytes_fields, << Req("uri", TStr) >>)

FilePart_fields ==
  Inherit(TextPart_fields,
          << Req("kind", TLit({Str("file")})),
             Req("file", TUnion(<<"FileWithBytes", "FileWithUri">>)),
             Opt("embeddings", TList(TFloat)) >>)

DataPart_fields ==
  Inherit(TextPart_fields,
          << Req("kind", TLit({Str("data")})),
             Req("data", TDict),
             Opt("embeddings", TList(TFloat)) >>)

Part == TTagged("kind", <<"TextPart", "FilePart", "DataPart">>)

Artifact_fields ==
  << Req("artifact_id", TUuid),
     Opt("name", TStr),
     Opt("description", TStr),
     Opt("metadata", TDict),
     Opt("parts", TList(Part)),
     Opt("append", TBool),
     Opt("last_chunk", TBool),
     Opt("extensions", TList(TStr)) >>

Message_fields ==
  << Req("message_id", TUuid),
     Req("context_id", TUuid),
     Req("task_id", TUuid),
     Opt("reference_task_ids", TList(TUuid)),
     Req("kind", TLit({Str("message")})),
     Opt("metadata", TDict),
     Req("parts", TList(Part)),
     Req("role", TLit(StrLits({"user", "agent", "system"}))),
     Opt("extensions", TList(TStr)) >>

(* ---------------- security schemes ---------------- *)
HTTPAuthSecurityScheme_fields ==
  << Req("type", TLit({Str("http")})),
     Req("scheme", TStr),
     Opt("bearer_format", TStr),
     Opt("description", TStr) >>

APIKeySecurityScheme_fields ==
  << Req("type", TLit({Str("apiKey")})),
     Req("name", TStr),
     Req("in_", TLit(StrLits({"query", "header", "cookie"}))),
     Opt("description", TStr) >>

OAuth2SecurityScheme_fields ==
  << Req("type", TLit({Str("oauth2")})),
     Req("flows", TDict),
     Opt("description", TStr) >>

OpenIdConnectSecurityScheme_fields ==
  << Req("type", TLit({Str("openIdConnect")})),
     Req("open_id_connect_url", TStr),
     Opt("description", TStr) >>

MutualTLSSecurityScheme_fields ==
  << Req("type", TLit({Str("mutualTLS")})),
     Opt("description", TStr) >>

SecurityScheme ==
  TTagged("type",
          << "HTTPAuthSecurityScheme", "APIKeySecurityScheme",
             "OAuth2SecurityScheme", "OpenIdConnectSecurityScheme",
             "MutualTLSSecurityScheme" >>)

(* ---------------- task ---------------- *)
TaskStatus_fields ==
  << Opt("message", TTd("Message")),
     Req("state", TLit(StrLits(TaskState))),
     Req("timestamp", TStr) >>

Task_fields ==
  << Req("id", TUuid),
     Req("context_id", TUuid),
     Req("kind", TLit({Str("task")})),
     Req("status", TTd("TaskStatus")),
     Opt("artifacts", TList(TTd("Artifact"))),
     Opt("history", TList(TTd("Message"))),
     Opt("metadata", TDict) >>

TaskStatusUpdateEvent_fields ==
  << Req("task_id", TUuid),
     Req("context_id", TUuid),
     Req("final", TBool),
     Req("kind", TLit({Str("status-update")})),
     Opt("metadata", TDict),
     Req("status", TTd("TaskStatus")) >>

(* ---------------- context ---------------- *)
Context_fields_updated_at_optional ==
  << Req("context_id", TUuid),
     Req("kind", TLit({Str("context")})),
     Opt("tasks", TList(TUuid)),
     Opt("name", TStr),
     Opt("description", TStr),
     Req("role", TStr),
     Req("created_at", TStr),
     Opt("updated_at", TStr),
     Opt("status", TLit(StrLits({"active", "paused", "completed", "archived"}))),
     Opt("tags", TList(TStr)),
     Opt("metadata", TDict),
     Opt("parent_context_id", TUuid),
     Opt("reference_context_ids", TList(TUuid)),
     Opt("extensions", TDict) >>

Context_fields ==
  << Req("context_id", TUuid),
     Req("kind", TLit({Str("context")})),
     Opt("tasks", TList(TUuid)),
     Opt("name", TStr),
     Opt("description", TStr),
     Req("role", TStr),
     Req("created_at", TStr),
     Req("updated_at", TStr),
     Opt("status", TLit(StrLits({"active", "paused", "completed", "archived"}))),
     Opt("tags", TList(TStr)),
     Opt("metadata", TDict),
     Opt("parent_context_id", TUuid),
     Opt("reference_context_ids", TList(TUuid)),
     Opt("extensions", TDict) >>

(* ---------------- payment models and mandates ---------------- *)
ContactAddress_fields ==
  << Opt("city", TStr),
     Opt("country", TStr),
     Opt("dependent_locality", TStr),
     Opt("organization", TStr),
     Opt("phone_number", TStr),
     Opt("postal_code", TStr),
     Opt("recipient", TStr),
     Opt("region", TStr),
     Opt("sorting_code", TStr),
     Opt("address_line", TList(TStr)) >>

PaymentCurrencyAmount_fields ==
  << Req("currency", TStr),
     Req("value", TFloat) >>

PaymentItem_fields ==
  << Req("label", TStr),
     Req("amount", TTd("PaymentCurrencyAmount")),
     Opt("pending", TBool),
     Opt("refund_period", TInt) >>

PaymentShippingOption_fields ==
  << Req("id", TStr),
     Req("label", TStr),
     Req("amount", TTd("PaymentCurrencyAmount")),
     Opt("selected", TBool) >>

PaymentOptions_fields ==
  << Opt("request_payer_name", TBool),
     Opt("request_payer_email", TBool),
     Opt("request_payer_phone", TBool),
     Opt("request_shipping", TBool),
     Opt("shipping_type", TStr) >>

PaymentMethodData_fields ==
  << Req("supported_methods", TStr),
     Opt("data", TDict) >>

PaymentDetailsModifier_fields ==
  << Req("supported_methods", TStr),
     Opt("total", TTd("PaymentItem")),
     Opt("additional_display_items", TList(TTd("PaymentItem"))),
     Opt("data", TAny) >>

PaymentDetailsInit_fields ==
  << Req("id", TStr),
     Req("display_items", TList(TTd("PaymentItem"))),
     Opt("shipping_options", TList(TTd("PaymentShippingOption"))),
     Opt("modifiers", TList(TTd("PaymentDetailsModifier"))),
     Req("total", TTd("PaymentItem")),
     Opt("description", TStr) >>

\* method_data and details carry no qualifier: the class is total, so required
PaymentRequest_fields ==
  << Req("method_data", TList(TTd("PaymentMethodData"))),
     Req("details", TTd("PaymentDetailsInit")),
     Opt("options", TTd("PaymentOptions")),
     Opt("shipping_address", TTd("ContactAddress")) >>

PaymentResponse_fields ==
  << Req("request_id", TStr),
     Req("method_name", TStr),
     Opt("details", TDict),
     Opt("shipping_address", TTd("ContactAddress")),
     Opt("shipping_option", TTd("PaymentShippingOption")),
     Opt("payer_name", TStr),
     Opt("payer_email", TStr),
     Opt("payer_phone", TStr) >>

IntentMandate_fields ==
  << Req("user_cart_confirmation_required", TBool),
     Req("natural_language_description", TStr),
     Opt("merchants", TList(TStr)),
     Opt("skus", TList(TStr)),
     Opt("requires_refundability", TBool),
     Req("intent_expiry", TStr) >>

CartContents_fields ==
  << Req("id", TStr),
     Req("user_cart_confirmation_required", TBool),
     Req("payment_request", TTd("PaymentRequest")),
     Req("cart_expiry", TStr),
     Req("merchant_name", TStr) >>

CartMandate_fields ==
  << Req("contents", TTd("CartContents")),
     Opt("merchant_authorization", TStr) >>

PaymentMandateContents_fields ==
  << Req("payment_mandate_id", TStr),
     Req("payment_details_id", TStr),
     Req("payment_details_total", TTd("PaymentItem")),
     Req("payment_response", TTd("PaymentResponse")),
     Req("merchant_agent", TStr),
     Req("timestamp", TStr) >>

PaymentMandate_fields ==
  << Req("payment_mandate_contents", TTd("PaymentMandateContents")),
     Opt("user_authorization", TStr) >>

(* ---------------- push notification configuration ---------------- *)
PushNotificationConfig_fields ==
  << Req("id", TUuid),
     Req("url", TStr),
     Opt("token", TStr),
     Opt("authentication", SecurityScheme) >>

TaskPushNotificationConfig_fields ==
  << Req("id", TUuid),
     Req("push_notification_config", TTd("PushNotificationConfig")) >>

(* ---------------- method parameters ---------------- *)
\* TaskIdParams with its task_id key not required
TaskIdParams_fields_id_optional ==
  << Opt("task_id", TUuid),
     Opt("metadata", TDict) >>

TaskIdParams_fields ==
  << Req("task_id", TUuid),
     Opt("metadata", TDict) >>

TaskQueryParams_fields ==
  Inherit(TaskIdParams_fields, << Opt("history_length", TInt) >>)

ListTasksParams_fields ==
  << Opt("history_length", TInt),
     Opt("metadata", TDict) >>

TaskFeedbackParams_fields ==
  << Req("task_id", TUuid),
     Req("feedback", TStr),
     Opt("rating", TInt),
     Opt("metadata", TDict) >>

MessageSendConfiguration_fields ==
  << Req("accepted_output_modes", TList(TStr)),
     Opt("blocking", TBool),
     Opt("history_length", TInt),
     Opt("push_notification_config", TTd("PushNotificationConfig")) >>

MessageSendParams_fields ==
  << Req("configuration", TTd("MessageSendConfiguration")),
     Req("message", TTd("Message")),
     Opt("metadata", TDict) >>

ListTaskPushNotificationConfigParams_fields ==
  << Req("id", TUuid),
     Opt("metadata", TDict) >>

DeleteTaskPushNotificationConfigParams_fields ==
  << Req("id", TUuid),
     Req("push_notification_config_id", TUuid),
     Opt("metadata", TDict) >>

ContextIdParams_fields ==
  << Req("context_id", TUuid),
     Opt("metadata", TDict) >>

ListContextsParams_fields ==
  << Opt("history_length", TInt),
     Opt("metadata", TDict) >>

(* ---------------- JSON-RPC envelope ---------------- *)
\* a message whose version is any string
JSONRPCMessage_fields_any_version ==
  << Req("jsonrpc", TStr),
     Req("id", TUuid) >>

JSONRPCMessage_fields ==
  << Req("jsonrpc", TLit({Str("2.0")})),
     Req("id", TUuid) >>

\* JSONRPCRequest[Method, Params]
JSONRPCRequest_fields(Method, Params) ==
  Inherit(JSONRPCMessage_fields,
          << Req("method", Method),
             Req("params", Params) >>)

\* an error whose message is any string
JSONRPCError_fields_free_message(CodeT, MessageT) ==
  << Req("code", CodeT),
     Req("message", TStr),
     Opt("data", TAny) >>

\* JSONRPCError[CodeT, MessageT]
JSONRPCError_fields(CodeT, MessageT) ==
  << Req("code", CodeT),
     Req("message", MessageT),
     Opt("data", TAny) >>

\* JSONRPCResponse[ResultT, ErrorT]
JSONRPCResponse_fields(ResultT, ErrorT) ==
  Inherit(JSONRPCMessage_fields,
          << Opt("result", ResultT),
             Opt("error", ErrorT) >>)

TaskNotFoundCode == -32001

TaskNotFoundMessage ==
  "The specified task ID was not found. The task may have been completed, canceled, or expired. Check task status: GET /tasks/{id}"

TaskNotFoundError_fields ==
  JSONRPCError_fields(TLit({Num(TaskNotFoundCode)}), TLit({Str(TaskNotFoundMessage)}))

GetTaskResponse_fields ==
  JSONRPCResponse_fields(TTd("Task"), TTd("TaskNotFoundError"))

(* ---------------- error taxonomy ---------------- *)
\* the taxonomy with its last alias left out
ErrorTable_without_last ==
  << [name |-> "JSONParseError", code |-> -32700,
      message |-> "Failed to parse JSON payload. Please ensure the request body contains valid JSON syntax. See: https://www.jsonrpc.org/specification#error_object"],
     [name |-> "InvalidRequestError", code |-> -32600,
      message |-> "Request payload validation failed. The request structure does not conform to JSON-RPC 2.0 specification. See: https://www.jsonrpc.org/specification#request_object"],
     [name |-> "MethodNotFoundError", code |-> -32601,
      message |-> "The requested method is not available on this server. Please check the method name and try again. See API docs: /docs"],
     [name |-> "InvalidParamsError", code |-> -32602,
      message |-> "Invalid or missing parameters for the requested method. Please verify parameter types and required fields. See API docs: /docs"],
     [name |-> "InternalError", code |-> -32603,
      message |-> "An internal server error occurred while processing the request. Please try again or contact support if the issue persists. See: /health"],
     [name |-> "TaskNotFoundError", code |-> TaskNotFoundCode,
      message |-> TaskNotFoundMessage],
     [name |-> "TaskNotCancelableError", code |-> -32002,
      message |-> "This task cannot be canceled in its current state. Tasks can only be canceled while pending or running. See task lifecycle: /docs/tasks"],
     [name |-> "ContextNotFoundError", code |-> -32003,
      message |-> "The specified context ID was not found. The context may have been deleted or expired. Check context status: GET /contexts/{id}"],
     [name |-> "ContextNotCancelableError", code |-> -32004,
      message |-> "This context cannot be canceled in its current state. Contexts can only be canceled while pending or running. See context lifecycle: /docs/contexts"],
     [name |-> "PushNotificationNotSupportedError", code |-> -32005,
      message |-> "Push notifications are not supported by this server configuration. Please use polling to check task status. See: GET /tasks/{id}"],
     [name |-> "UnsupportedOperationError", code |-> -32006,
      message |-> "The requested operation is not supported by this agent or server configuration. See supported operations: /docs/capabilities"],
     [name |-> "ContentTypeNotSupportedError", code |-> -32007,
      message |-> "The content type in the request is not supported. Please use application/json or check supported content types. See: /docs/content-types"] >>

\* the error aliases: JSONRPCError[Literal[code], Literal[message]]
ErrorTable ==
  << [name |-> "JSONParseError", code |-> -32700,
      message |-> "Failed to parse JSON payload. Please ensure the request body contains valid JSON syntax. See: https://www.jsonrpc.org/specification#error_object"],
     [name |-> "InvalidRequestError", code |-> -32600,
      message |-> "Request payload validation failed. The request structure does not conform to JSON-RPC 2.0 specification. See: https://www.jsonrpc.org/specification#request_object"],
     [name |-> "MethodNotFoundError", code |-> -32601,
      message |-> "The requested method is not available on this server. Please check the method name and try again. See API docs: /docs"],
     [name |-> "InvalidParamsError", code |-> -32602,
      message |-> "Invalid or missing parameters for the requested method. Please verify parameter types and required fields. See API docs: /docs"],
     [name |-> "InternalError", code |-> -32603,
      message |-> "An internal server error occurred while processing the request. Please try again or contact support if the issue persists. See: /health"],
     [name |-> "TaskNotFoundError", code |-> TaskNotFoundCode,
      message |-> TaskNotFoundMessage],
     [name |-> "TaskNotCancelableError", code |-> -32002,
      message |-> "This task cannot be canceled in its current state. Tasks can only be canceled while pending or running. See task lifecycle: /docs/tasks"],
     [name |-> "ContextNotFoundError", code |-> -32003,
      message |-> "The specified context ID was not found. The context may have been deleted or expired. Check context status: GET /contexts/{id}"],
     [name |-> "ContextNotCancelableError", code |-> -32004,
      message |-> "This context cannot be canceled in its current state. Contexts can only be canceled while pending or running. See context lifecycle: /docs/contexts"],
     [name |-> "PushNotificationNotSupportedError", code |-> -32005,
      message |-> "Push notifications are not supported by this server configuration. Please use polling to check task status. See: GET /tasks/{id}"],
     [name |-> "UnsupportedOperationError", code |-> -32006,
      message |-> "The requested operation is not supported by this agent or server configuration. See supported operations: /docs/capabilities"],
     [name |-> "ContentTypeNotSupportedError", code |-> -32007,
      message |-> "The content type in the request is not supported. Please use application/json or check supported content types. See: /docs/content-types"],
     [name |-> "InvalidAgentResponseError", code |-> -32008,
      message |-> "The agent returned an invalid or malformed response. This may indicate an agent configuration issue. See troubleshooting: /docs/troubleshooting"] >>

ErrorNames == {ErrorTable[i].name : i \in DOMAIN ErrorTable}

ErrorEntry(e) == ErrorTable[CHOOSE i \in DOMAIN ErrorTable : ErrorTable[i].name = e]

\* the annotations of the error alias of a table entry
ErrorAlias_fields(entry) ==
  JSONRPCError_fields(TLit({Num(entry.code)}), TLit({Str(entry.message)}))

(* ---------------- method registry ---------------- *)
\* the aliases with message/stream declared under the method name of message/send
MethodTable_stream_as_send ==
  << [method |-> "message/send",
      request |-> "SendMessageRequest", params |-> TTd("MessageSendParams"),
      response |-> "SendMessageResponse", result |-> TUnion(<<"Task", "Message">>),
      error |-> TTd("JSONRPCError[Any, Any]")],
     [method |-> "message/send",
      request |-> "StreamMessageRequest", params |-> TTd("MessageSendParams"),
      response |-> "StreamMessageResponse", result |-> TUnion(<<"Task", "Message">>),
      error |-> TTd("JSONRPCError[Any, Any]")],
     [method |-> "tasks/get",
      request |-> "GetTaskRequest", params |-> TTd("TaskQueryParams"),
      response |-> "GetTaskResponse", result |-> TTd("Task"),
      error |-> TTd("TaskNotFoundError")],
     [method |-> "tasks/cancel",
      request |-> "CancelTaskRequest", params |-> TTd("TaskIdParams"),
      response |-> "CancelTaskResponse", result |-> TTd("Task"),
      error |-> TUnion(<<"TaskNotCancelableError", "TaskNotFoundError">>)],
     [method |-> "tasks/list",
      request |-> "ListTasksRequest", params |-> TTd("ListTasksParams"),
      response |-> "ListTasksResponse", result |-> TList(TTd("Task")),
      error |-> TUnion(<<"TaskNotFoundError", "TaskNotCancelableError">>)],
     [method |-> "tasks/feedback",
      request |-> "TaskFeedbackRequest", params |-> TTd("TaskFeedbackParams"),
      response |-> "TaskFeedbackResponse", result |-> TDictOf(TStr),
      error |-> TTd("TaskNotFoundError")],
     [method |-> "contexts/list",
      request |-> "ListContextsRequest", params |-> TTd("ListContextsParams"),
      response |-> "ListContextsResponse", result |-> TList(TTd("Context")),
      error |-> TUnion(<<"ContextNotFoundError", "ContextNotCancelableError">>)],
     [method |-> "contexts/clear",
      request |-> "ClearContextsRequest", params |-> TTd("ContextIdParams"),
      response |-> "ClearContextsResponse", result |-> TTd("Context"),
      error |-> TTd("JSONRPCError[ContextNotFoundError, ContextNotCancelableError]")],
     [method |-> "tasks/pushNotification/set",
      request |-> "SetTaskPushNotificationRequest", params |-> TTd("TaskPushNotificationConfig"),
      response |-> "SetTaskPushNotificationResponse", result |-> TTd("TaskPushNotificationConfig"),
      error |-> TTd("PushNotificationNotSupportedError")],
     [method |-> "tasks/pushNotification/get",
      request |-> "GetTaskPushNotificationRequest", params |-> TTd("TaskIdParams"),
      response |-> "GetTaskPushNotificationResponse", result |-> TTd("TaskPushNotificationConfig"),
      error |-> TTd("PushNotificationNotSupportedError")],
     [method |-> "tasks/resubscribe",
      request |-> "ResubscribeTaskRequest", params |-> TTd("TaskIdParams"),
      response |-> "ResubscribeTaskResponse", result |-> TTd("Task"),
      error |-> TUnion(<<"TaskNotCancelableError", "TaskNotFoundError">>)],
     [method |-> "tasks/pushNotificationConfig/list",
      request |-> "ListTaskPushNotificationConfigRequest", params |-> TTd("ListTaskPushNotificationConfigParams"),
      response |-> "ListTaskPushNotificationConfigResponse", result |-> TTd("TaskPushNotificationConfig"),
      error |-> TTd("PushNotificationNotSupportedError")],
     [method |-> "tasks/pushNotificationConfig/delete",
      request |-> "DeleteTaskPushNotificationConfigRequest", params |-> TTd("DeleteTaskPushNotificationConfigParams"),
      response |-> "DeleteTaskPushNotificationConfigResponse", result |-> TTd("TaskPushNotificationConfig"),
      error |-> TTd("PushNotificationNotSupportedError")] >>

\* the request and response aliases: XRequest = JSONRPCRequest[Literal[method],
\* params] and XResponse = JSONRPCResponse[result, error]
MethodTable ==
  << [method |-> "message/send",
      request |-> "SendMessageRequest", params |-> TTd("MessageSendParams"),
      response |-> "SendMessageResponse", result |-> TUnion(<<"Task", "Message">>),
      error |-> TTd("JSONRPCError[Any, Any]")],
     [method |-> "message/stream",
      request |-> "StreamMessageRequest", params |-> TTd("MessageSendParams"),
      response |-> "StreamMessageResponse", result |-> TUnion(<<"Task", "Message">>),
      error |-> TTd("JSONRPCError[Any, Any]")],
     [method |-> "tasks/get",
      request |-> "GetTaskRequest", params |-> TTd("TaskQueryParams"),
      response |-> "GetTaskResponse", result |-> TTd("Task"),
      error |-> TTd("TaskNotFoundError")],
     [method |-> "tasks/cancel",
      request |-> "CancelTaskRequest", params |-> TTd("TaskIdParams"),
      response |-> "CancelTaskResponse", result |-> TTd("Task"),
      error |-> TUnion(<<"TaskNotCancelableError", "TaskNotFoundError">>)],
     [method |-> "tasks/list",
      request |-> "ListTasksRequest", params |-> TTd("ListTasksParams"),
      response |-> "ListTasksResponse", result |-> TList(TTd("Task")),
      error |-> TUnion(<<"TaskNotFoundError", "TaskNotCancelableError">>)],
     [method |-> "tasks/feedback",
      request |-> "TaskFeedbackRequest", params |-> TTd("TaskFeedbackParams"),
      response |-> "TaskFeedbackResponse", result |-> TDictOf(TStr),
      error |-> TTd("TaskNotFoundError")],
     [method |-> "contexts/list",
      request |-> "ListContextsRequest", params |-> TTd("ListContextsParams"),
      response |-> "ListContextsResponse", result |-> TList(TTd("Context")),
      error |-> TUnion(<<"ContextNotFoundError", "ContextNotCancelableError">>)],
     [method |-> "contexts/clear",
      request |-> "ClearContextsRequest", params |-> TTd("ContextIdParams"),
      response |-> "ClearContextsResponse", result |-> TTd("Context"),
      error |-> TTd("JSONRPCError[ContextNotFoundError, ContextNotCancelableError]")],
     [method |-> "tasks/pushNotification/set",
      request |-> "SetTaskPushNotificationRequest", params |-> TTd("TaskPushNotificationConfig"),
      response |-> "SetTaskPushNotificationResponse", result |-> TTd("TaskPushNotificationConfig"),
      error |-> TTd("PushNotificationNotSupportedError")],
     [method |-> "tasks/pushNotification/get",
      request |-> "GetTaskPushNotificationRequest", params |-> TTd("TaskIdParams"),
      response |-> "GetTaskPushNotificationResponse", result |-> TTd("TaskPushNotificationConfig"),
      error |-> TTd("PushNotificationNotSupportedError")],
     [method |-> "tasks/resubscribe",
      request |-> "ResubscribeTaskRequest", params |-> TTd("TaskIdParams"),
      response |-> "ResubscribeTaskResponse", result |-> TTd("Task"),
      error |-> TUnion(<<"TaskNotCancelableError", "TaskNotFoundError">>)],
     [method |-> "tasks/pushNotificationConfig/list",
      request |-> "ListTaskPushNotificationConfigRequest", params |-> TTd("ListTaskPushNotificationConfigParams"),
      response |-> "ListTaskPushNotificationConfigResponse", result |-> TTd("TaskPushNotificationConfig"),
      error |-> TTd("PushNotificationNotSupportedError")],
     [method |-> "tasks/pushNotificationConfig/delete",
      request |-> "DeleteTaskPushNotificationConfigRequest", params |-> TTd("DeleteTaskPushNotificationConfigParams"),
      response |-> "DeleteTaskPushNotificationConfigResponse", result |-> TTd("TaskPushNotificationConfig"),
      error |-> TTd("PushNotificationNotSupportedError")] >>

RequestNames == [i \in DOMAIN MethodTable |-> MethodTable[i].request]

ResponseNames == [i \in DOMAIN MethodTable |-> MethodTable[i].response]

\* the table entry that declares the request or response alias e
MethodEntry(e) ==
  MethodTable[CHOOSE i \in DOMAIN MethodTable :
                e \in {MethodTable[i].request, MethodTable[i].response}]

\* the annotations of the request alias of a table entry
RequestAlias_fields(entry) ==
  JSONRPCRequest_fields(TLit({Str(entry.method)}), entry.params)

\* the annotations of the response alias of a table entry
ResponseAlias_fields(entry) ==
  JSONRPCResponse_fields(entry.result, entry.error)

\* the union of the requests without its discriminator
PebblingRequest_undiscriminated == TUnion(RequestNames)

PebblingRequest == TTagged("method", RequestNames)

PebblingResponse == TUnion(ResponseNames)

\* the classes decorated with pydantic.with_config({"alias_generator": to_camel})
AliasGenerated ==
  { "TextPart", "FileWithBytes", "FileWithUri", "FilePart", "Artifact",
    "Message", "HTTPAuthSecurityScheme", "APIKeySecurityScheme",
    "OAuth2SecurityScheme", "OpenIdConnectSecurityScheme",
    "MutualTLSSecurityScheme", "TaskStatus", "Task", "TaskStatusUpdateEvent",
    "Context", "ContactAddress", "PaymentCurrencyAmount", "PaymentItem",
    "PaymentShippingOption", "PaymentOptions", "PaymentMethodData",
    "PaymentDetailsModifier", "PaymentDetailsInit", "PaymentRequest",
    "PaymentResponse", "IntentMandate", "CartContents", "CartMandate",
    "PaymentMandateContents", "PaymentMandate", "PushNotificationConfig",
    "TaskPushNotificationConfig", "TaskIdParams", "TaskQueryParams",
    "ListTasksParams", "TaskFeedbackParams", "MessageSendConfiguration",
    "MessageSendParams", "ListTaskPushNotificationConfigParams",
    "DeleteTaskPushNotificationConfigParams", "ContextIdParams",
    "ListContextsParams" }

Fields(e) ==
  CASE e = "TextPart" -> TextPart_fields
    [] e = "FileWithBytes" -> FileWithBytes_fields
    [] e = "FileWithUri" -> FileWithUri_fields
    [] e = "FilePart" -> FilePart_fields
    [] e = "DataPart" -> DataPart_fields
    [] e = "Artifact" -> Artifact_fields
    [] e = "Message" -> Message_fields
    [] e = "HTTPAuthSecurityScheme" -> HTTPAuthSecurityScheme_fields
    [] e = "APIKeySecurityScheme" -> APIKeySecurityScheme_fields
    [] e = "OAuth2SecurityScheme" -> OAuth2SecurityScheme_fields
    [] e = "OpenIdConnectSecurityScheme" -> OpenIdConnectSecurityScheme_fields
    [] e = "MutualTLSSecurityScheme" -> MutualTLSSecurityScheme_fields
    [] e = "TaskStatus" -> TaskStatus_fields
    [] e = "Task" -> Task_fields
    [] e = "TaskStatusUpdateEvent" -> TaskStatusUpdateEvent_fields
    [] e = "Context" -> Context_fields
    [] e = "ContactAddress" -> ContactAddress_fields
    [] e = "PaymentCurrencyAmount" -> PaymentCurrencyAmount_fields
    [] e = "PaymentItem" -> PaymentItem_fields
    [] e = "PaymentShippingOption" -> PaymentShippingOption_fields
    [] e = "PaymentOptions" -> PaymentOptions_fields
    [] e = "PaymentMethodData" -> PaymentMethodData_fields
    [] e = "PaymentDetailsModifier" -> PaymentDetailsModifier_fields
    [] e = "PaymentDetailsInit" -> PaymentDetailsInit_fields
    [] e = "PaymentRequest" -> PaymentRequest_fields
    [] e = "PaymentResponse" -> PaymentResponse_fields
    [] e = "IntentMandate" -> IntentMandate_fields
    [] e = "CartContents" -> CartContents_fields
    [] e = "CartMandate" -> CartMandate_fields
    [] e = "PaymentMandateContents" -> PaymentMandateContents_fields
    [] e = "PaymentMandate" -> PaymentMandate_fields
    [] e = "TaskNotFoundError" -> TaskNotFoundError_fields
    [] e = "GetTaskResponse" -> GetTaskResponse_fields
    [] e = "PushNotificationConfig" -> PushNotificationConfig_fields
    [] e = "TaskPushNotificationConfig" -> TaskPushNotificationConfig_fields
    [] e = "TaskIdParams" -> TaskIdParams_fields
    [] e = "TaskQueryParams" -> TaskQueryParams_fields
    [] e = "ListTasksParams" -> ListTasksParams_fields
    [] e = "TaskFeedbackParams" -> TaskFeedbackParams_fields
    [] e = "MessageSendConfiguration" -> MessageSendConfiguration_fields
    [] e = "MessageSendParams" -> MessageSendParams_fields
    [] e = "ListTaskPushNotificationConfigParams" ->
         ListTaskPushNotificationConfigParams_fields
    [] e = "DeleteTaskPushNotificationConfigParams" ->
         DeleteTaskPushNotificationConfigParams_fields
    [] e = "ContextIdParams" -> ContextIdParams_fields
    [] e = "ListContextsParams" -> ListContextsParams_fields
    [] e = "JSONRPCError[Any, Any]" -> JSONRPCError_fields(TAny, TAny)
    [] e = "JSONRPCError[ContextNotFoundError, ContextNotCancelableError]" ->
         JSONRPCError_fields(TTd("ContextNotFoundError"),
                             TTd("ContextNotCancelableError"))
    [] e \in ErrorNames -> ErrorAlias_fields(ErrorEntry(e))
    [] e \in {RequestNames[i] : i \in DOMAIN RequestNames} ->
         RequestAlias_fields(MethodEntry(e))
    [] e \in {ResponseNames[i] : i \in DOMAIN ResponseNames} ->
         ResponseAlias_fields(MethodEntry(e))

(***************************************************************************)
(* Wire names.  The alias generator of a decorated class gives every key   *)
(* its validation alias and its serialisation alias; a class without the   *)
(* decorator uses the key itself.                                          *)
(***************************************************************************)
\* the alias of every name spelled in names: the name that spells its camel case
Aliases(names) ==
  [n \in DOMAIN names |-> CHOOSE m \in DOMAIN names : names[m] = to_camel(names[n])]

CamelOf == Aliases(K)

\* the key looked up in the input when a class is validated
ValName(e, n) == IF e \in AliasGenerated THEN CamelOf[n] ELSE n

\* serialisation by field name instead of by alias
SerName_by_field_name(e, n) == n

\* the key written when a class is serialised by alias
SerName(e, n) == IF e \in AliasGenerated THEN CamelOf[n] ELSE n

(***************************************************************************)
(* UUID strings: parsing accepts other spellings of a UUID (upper case)    *)
(* and gives the UUID, which is written back in canonical lower case.      *)
(***************************************************************************)
UuidParse ==
  [s \in {"aaaa-0001", "AAAA-0001", "bbbb-0002", "BBBB-0002"} |->
     IF s \in {"aaaa-0001", "AAAA-0001"} THEN "aaaa-0001" ELSE "bbbb-0002"]

ValidateUuid(v) ==
  IF v[1] # "s" THEN Err("uuid_type")
  ELSE IF v[2] \in DOMAIN UuidParse THEN Ok(Uuid(UuidParse[v[2]]))
  ELSE Err("uuid_parsing")

ValidateLiteral(vals, v) ==
  IF v \in vals THEN Ok(v) ELSE Err("literal_error")

\* the literal values that the annotations fs give for key d
LiteralsAt(fs, d) == UNION {fs[i].ty.vals : i \in {j \in DOMAIN fs : fs[j].n = d}}

\* the literal values of key d in class e (the tag of a union member)
TagsOf(e, d) == LiteralsAt(Fields(e), d)

RECURSIVE Validate(_, _)

\* the annotated keys fs, the i-th looked up in the input as key[i]: a key that
\* is not annotated is ignored, a required key that is absent is an error
ValidateKeys(fs, key, v) ==
  LET present == {i \in DOMAIN fs : key[i] \in DOMAIN v[2]}
      r == [i \in present |-> Validate(fs[i].ty, v[2][key[i]])]
      missing == {i \in DOMAIN fs \ present : fs[i].req}
      errs == (IF missing # {} THEN {"missing"} ELSE {})
                \cup UNION {r[i].errs : i \in present}
  IN  IF v[1] # "o" THEN Err("dict_type")
      ELSE IF errs # {} THEN Errs(errs)
      ELSE Ok(Obj([n \in {fs[i].n : i \in present} |->
                     r[CHOOSE i \in present : fs[i].n = n].val]))

\* every key of class e is looked up by its validation alias
ValidateFields(e, fs, v) ==
  ValidateKeys(fs, [i \in DOMAIN fs |-> ValName(e, fs[i].n)], v)

\* a TypedDict class
ValidateTypedDict(e, v) == ValidateFields(e, Fields(e), v)

\* a plain union (smart mode): every member is tried; of those that validate,
\* the one with the most keys set wins, the leftmost on a tie
ValidateUnion(ty, v) ==
  LET r == [i \in DOMAIN ty.of |-> Validate(TTd(ty.of[i]), v)]
      good == {i \in DOMAIN ty.of : r[i].errs = {}}
      n(i) == Cardinality(Keys(r[i].val))
      best == CHOOSE i \in good :
                \A j \in good : n(j) < n(i) \/ (n(j) = n(i) /\ i <= j)
  IN  IF good = {} THEN Errs(UNION {r[i].errs : i \in DOMAIN ty.of})
      ELSE r[best]

\* the union validated without its discriminator
ValidateTagged_undiscriminated(ty, v) == ValidateUnion(TUnion(ty.of), v)

\* a discriminated union: the tag is read first and selects the one member
\* that is validated
ValidateTagged(ty, v) ==
  LET d == ty.disc
      hit == {i \in DOMAIN ty.of : v[2][d] \in TagsOf(ty.of[i], d)}
  IN  IF v[1] # "o" THEN Err("dict_type")
      ELSE IF d \notin DOMAIN v[2] THEN Err("union_tag_not_found")
      ELSE IF hit = {} THEN Err("union_tag_invalid")
      ELSE Validate(TTd(ty.of[CHOOSE i \in hit : TRUE]), v)

\* Dict[str, t]: an object whose every value validates against t
ValidateDictOf(ty, v) ==
  LET r == [n \in DOMAIN v[2] |-> Validate(ty.of, v[2][n])]
      errs == UNION {r[n].errs : n \in DOMAIN v[2]}
  IN  IF v[1] # "o" THEN Err("dict_type")
      ELSE IF errs # {} THEN Errs(errs)
      ELSE Ok(Obj([n \in DOMAIN v[2] |-> r[n].val]))

\* a list type with a minimum length of one
ValidateList_nonempty(ty, v) ==
  LET r == [i \in DOMAIN v[2] |-> Validate(ty.of, v[2][i])]
      errs == UNION {r[i].errs : i \in DOMAIN v[2]}
  IN  IF v[1] # "a" THEN Err("list_type")
      ELSE IF v[2] = <<>> THEN Err("too_short")
      ELSE IF errs # {} THEN Errs(errs)
      ELSE Ok(Arr([i \in DOMAIN v[2] |-> r[i].val]))

\* list[t]: every element validates against t; no length is required
ValidateList(ty, v) ==
  LET r == [i \in DOMAIN v[2] |-> Validate(ty.of, v[2][i])]
      errs == UNION {r[i].errs : i \in DOMAIN v[2]}
  IN  IF v[1] # "a" THEN Err("list_type")
      ELSE IF errs # {} THEN Errs(errs)
      ELSE Ok(Arr([i \in DOMAIN v[2] |-> r[i].val]))

\* TypeAdapter(ty).validate_python(v)
Validate(ty, v) ==
  CASE ty.k = "str" -> IF v[1] = "s" THEN Ok(v) ELSE Err("string_type")
    [] ty.k = "bool" -> IF v[1] = "b" THEN Ok(v) ELSE Err("bool_type")
    [] ty.k = "int" -> IF v[1] = "n" THEN Ok(v) ELSE Err("int_type")
    [] ty.k = "float" -> IF v[1] = "n" THEN Ok(Float(v[2])) ELSE Err("float_type")
    [] ty.k = "uuid" -> ValidateUuid(v)
    [] ty.k = "any" -> Ok(v)
    [] ty.k = "dict" -> IF v[1] = "o" THEN Ok(v) ELSE Err("dict_type")
    [] ty.k = "lit" -> ValidateLiteral(ty.vals, v)
    [] ty.k = "list" -> ValidateList(ty, v)
    [] ty.k = "dictof" -> ValidateDictOf(ty, v)
    [] ty.k = "td" -> ValidateTypedDict(ty.e, v)
    [] ty.k = "tagged" -> ValidateTagged(ty, v)
    [] ty.k = "union" -> ValidateUnion(ty, v)

(***************************************************************************)
(* Serialisation by alias of a validated value.                            *)
(***************************************************************************)
RECURSIVE Serialize(_, _)

SerializeTypedDict(e, x) ==
  LET fs == Fields(e)
      present == {i \in DOMAIN fs : fs[i].n \in DOMAIN x[2]}
  IN  Obj([k \in {SerName(e, fs[i].n) : i \in present} |->
             LET i == CHOOSE j \in present : SerName(e, fs[j].n) = k
             IN  Serialize(fs[i].ty, x[2][fs[i].n])])

\* the member of a plain union that serialises x: the first whose keys cover
\* those of x and whose required keys x has, else the first
UnionMemberOf(ty, x) ==
  LET fits(i) == LET fs == Fields(ty.of[i])
                 IN  /\ DOMAIN x[2] \subseteq FieldNames(fs)
                     /\ \A j \in DOMAIN fs : fs[j].req => fs[j].n \in DOMAIN x[2]
      good == {i \in DOMAIN ty.of : fits(i)}
  IN  IF good = {} THEN ty.of[1]
      ELSE ty.of[CHOOSE i \in good : \A j \in good : i <= j]

\* TypeAdapter(ty).dump_python(x, mode="json", by_alias=True)
Serialize(ty, x) ==
  CASE ty.k = "float" -> Num(x[2])
    [] ty.k = "uuid" -> Str(x[2])
    [] ty.k = "list" -> Arr([i \in DOMAIN x[2] |-> Serialize(ty.of, x[2][i])])
    [] ty.k = "td" -> SerializeTypedDict(ty.e, x)
    [] ty.k = "tagged" ->
         LET hit == {i \in DOMAIN ty.of : x[2][ty.disc] \in TagsOf(ty.of[i], ty.disc)}
         IN  SerializeTypedDict(ty.of[CHOOSE i \in hit : TRUE], x)
    [] ty.k = "union" -> SerializeTypedDict(UnionMemberOf(ty, x), x)
    [] OTHER -> x

(***************************************************************************)
(* Inputs: JSON values as they arrive on the wire.                         *)
(***************************************************************************)
\* the longest list drawn as an input
MaxList == 2

\* every object that has some of the keys of cands (a function from keys to
\* sets of values), each with one of its candidate values
RECURSIVE ObjectsOver(_, _)
ObjectsOver(cands, keys) ==
  IF keys = {} THEN {<<>>}
  ELSE LET k == CHOOSE x \in keys : TRUE
           rest == ObjectsOver(cands, keys \ {k})
       IN  rest \cup {(k :> v) @@ o : v \in cands[k], o \in rest}

Objects(cands) == {Obj(o) : o \in ObjectsOver(cands, DOMAIN cands)}

\* every list over S of length at most MaxList
Lists(S) == {Arr(q) : q \in UNION {[1..m -> S] : m \in 0..MaxList}}

Id1 == Str("aaaa-0001")

Id1Upper == Str("AAAA-0001")

Id2 == Str("bbbb-0002")

T1 == Str("2023-10-27T10:00:00Z")

T2 == Str("2023-10-28T10:00:00Z")

FileInputs ==
  Objects(("bytes" :> {Str("QQ=="), Num(7)})
          @@ ("uri" :> {Str("https://x/y")})
          @@ ("mimeType" :> {Str("text/plain")}))
    \cup {Str("QQ==")}

PartInputs ==
  Objects(("kind" :> {Str("text"), Str("file"), Str("data"), Str("bogus"), Num(1)})
          @@ ("text" :> {Str("hello"), Num(7)})
          @@ ("file" :> FileInputs)
          @@ ("data" :> {Obj(("value" :> Num(1))), Str("x")})
          @@ ("metadata" :> {EmptyObj}))
    \cup {Str("text")}

WText == Obj(("kind" :> Str("text")) @@ ("text" :> Str("hello")))

WFileBoth ==
  Obj(("kind" :> Str("file")) @@ ("text" :> Str("caption"))
      @@ ("file" :> Obj(("bytes" :> Str("QQ==")) @@ ("uri" :> Str("https://x/y")))))

WData ==
  Obj(("kind" :> Str("data")) @@ ("text" :> Str("d"))
      @@ ("data" :> Obj(("value" :> Num(1)))))

WFileNoText ==
  Obj(("kind" :> Str("file")) @@ ("file" :> Obj(("bytes" :> Str("QQ==")))))

PartPool == {WText, WFileBoth, WData, WFileNoText}

MessageInputs ==
  Objects(("messageId" :> {Id1, Id1Upper})
          @@ ("contextId" :> {Id2})
          @@ ("context_id" :> {Id2})
          @@ ("taskId" :> {Id1})
          @@ ("kind" :> {Str("message")})
          @@ ("role" :> {Str("user"), Str("bogus")})
          @@ ("parts" :> Lists(PartPool)))

WMsg ==
  Obj(("messageId" :> Id1Upper) @@ ("contextId" :> Id2) @@ ("taskId" :> Id1)
      @@ ("kind" :> Str("message")) @@ ("role" :> Str("agent"))
      @@ ("parts" :> Arr(<<WText>>)))

WArt ==
  Obj(("artifactId" :> Id1) @@ ("parts" :> Arr(<<WData>>))
      @@ ("lastChunk" :> Bool(TRUE)))

WArtSnake ==
  Obj(("artifact_id" :> Id1) @@ ("last_chunk" :> Bool(TRUE)))

ArtifactInputs ==
  Objects(("artifactId" :> {Id1, Str("zz")})
          @@ ("parts" :> Lists(PartPool))
          @@ ("append" :> {Bool(FALSE), Num(7)})
          @@ ("lastChunk" :> {Bool(TRUE)})
          @@ ("last_chunk" :> {Bool(TRUE)}))

\* the sixteen state strings of the specification
ListedStates ==
  { "submitted", "working", "input-required", "completed", "canceled",
    "failed", "rejected", "auth-required", "unknown",
    "trust-verification-required", "pending", "suspended", "resumed",
    "negotiation-bid-submitted", "negotiation-bid-lost", "negotiation-bid-won" }

\* state strings outside the listed ones
OtherStates == {"bogus", "Completed", "done", ""}

TaskStatusInputs ==
  Objects(("state" :> StrLits(ListedStates \cup OtherStates) \cup {Num(1)})
          @@ ("timestamp" :> {T1, Num(7)})
          @@ ("message" :> {WMsg, Str("m")}))

WStatus(s) == Obj(("state" :> Str(s)) @@ ("timestamp" :> T1))

WStatusMsg(s) == Obj(("state" :> Str(s)) @@ ("timestamp" :> T2) @@ ("message" :> WMsg))

WTask(s) ==
  Obj(("id" :> Id1) @@ ("contextId" :> Id2) @@ ("kind" :> Str("task"))
      @@ ("status" :> WStatus(s)))

TaskInputs ==
  Objects(("id" :> {Id1, Id1Upper})
          @@ ("contextId" :> {Id2})
          @@ ("kind" :> {Str("task")})
          @@ ("status" :> {WStatus("working"), WStatusMsg("completed"), WStatus("bogus")})
          @@ ("artifacts" :> Lists({WArt, WArtSnake}))
          @@ ("history" :> Lists({WMsg})))

ContextInputs ==
  Objects(("contextId" :> {Id1})
          @@ ("kind" :> {Str("context")})
          @@ ("role" :> {Str("user")})
          @@ ("createdAt" :> {T1, T2})
          @@ ("updatedAt" :> {T1, T2, Str("yesterday")})
          @@ ("created_at" :> {T1})
          @@ ("status" :> {Str("active"), Str("bogus")})
          @@ ("tasks" :> Lists({Id1Upper, Id2})))

SecuritySchemeInputs ==
  Objects(("type" :> {Str("http"), Str("apiKey"), Str("oauth2"),
                      Str("openIdConnect"), Str("mutualTLS"), Str("bogus"), Num(1)})
          @@ ("scheme" :> {Str("bearer")})
          @@ ("name" :> {Str("X-Key")})
          @@ ("in_" :> {Str("header"), Str("body")})
          @@ ("in" :> {Str("header")})
          @@ ("flows" :> {EmptyObj})
          @@ ("openIdConnectUrl" :> {Str("https://x/oidc")}))
    \cup {Str("http")}

WAmount == Obj(("currency" :> Str("USD")) @@ ("value" :> Num(5)))

WItem == Obj(("label" :> Str("total")) @@ ("amount" :> WAmount))

WItemFull ==
  Obj(("label" :> Str("shoes")) @@ ("amount" :> WAmount)
      @@ ("pending" :> Bool(FALSE)) @@ ("refundPeriod" :> Num(30)))

WItemBad ==
  Obj(("label" :> Str("total"))
      @@ ("amount" :> Obj(("currency" :> Str("USD")) @@ ("value" :> Str("five")))))

WAddress ==
  Obj(("city" :> Str("Oslo")) @@ ("postalCode" :> Str("0150"))
      @@ ("addressLine" :> Arr(<<Str("1 Main St")>>)))

WShipping ==
  Obj(("id" :> Str("s1")) @@ ("label" :> Str("post")) @@ ("amount" :> WAmount)
      @@ ("selected" :> Bool(TRUE)))

WDetails(total) ==
  Obj(("id" :> Str("d1")) @@ ("displayItems" :> Arr(<<WItemFull>>))
      @@ ("total" :> total))

WRequest ==
  Obj(("methodData" :> Arr(<<Obj(("supportedMethods" :> Str("CARD")))>>))
      @@ ("details" :> WDetails(WItem)))

WRequestFull ==
  Obj(("methodData" :> Arr(<<Obj(("supportedMethods" :> Str("CARD"))
                                  @@ ("data" :> EmptyObj))>>))
      @@ ("details" :>
            Obj(("id" :> Str("d1")) @@ ("displayItems" :> Arr(<<WItem, WItemFull>>))
                @@ ("shippingOptions" :> Arr(<<WShipping>>))
                @@ ("modifiers" :>
                      Arr(<<Obj(("supportedMethods" :> Str("CARD"))
                                @@ ("additionalDisplayItems" :> Arr(<<WItem>>)))>>))
                @@ ("total" :> WItem)))
      @@ ("options" :> Obj(("requestShipping" :> Bool(TRUE))
                           @@ ("shippingType" :> Str("delivery"))))
      @@ ("shippingAddress" :> WAddress))

WRequestBad ==
  Obj(("methodData" :> Arr(<<>>)) @@ ("details" :> WDetails(WItemBad)))

WRequestSnake ==
  Obj(("method_data" :> Arr(<<Obj(("supported_methods" :> Str("CARD")))>>))
      @@ ("details" :> WDetails(WItem)))

IntentMandateInputs ==
  Objects(("userCartConfirmationRequired" :> {Bool(TRUE), Str("yes")})
          @@ ("naturalLanguageDescription" :> {Str("red shoes")})
          @@ ("natural_language_description" :> {Str("red shoes")})
          @@ ("merchants" :> Lists({Str("m1")}))
          @@ ("requiresRefundability" :> {Bool(TRUE)})
          @@ ("intentExpiry" :> {T1}))

CartContentsInputs ==
  Objects(("id" :> {Str("c1")})
          @@ ("userCartConfirmationRequired" :> {Bool(FALSE)})
          @@ ("paymentRequest" :> {WRequest, WRequestFull, WRequestBad, WRequestSnake})
          @@ ("cartExpiry" :> {T1})
          @@ ("merchantName" :> {Str("m1")}))

CartMandateInputs ==
  Objects(("contents" :> CartContentsInputs)
          @@ ("merchantAuthorization" :> {Str("h.p.s"), Num(7)})
          @@ ("merchant_authorization" :> {Str("h.p.s")}))

WResponse == Obj(("requestId" :> Str("d1")) @@ ("methodName" :> Str("CARD")))

WResponseFull ==
  Obj(("requestId" :> Str("d1")) @@ ("methodName" :> Str("CARD"))
      @@ ("details" :> Obj(("token" :> Str("tok"))))
      @@ ("shippingAddress" :> WAddress) @@ ("shippingOption" :> WShipping)
      @@ ("payerEmail" :> Str("a@b")))

WResponseBad == Obj(("requestId" :> Str("d1")) @@ ("method_name" :> Str("CARD")))

PaymentMandateContentsInputs ==
  Objects(("paymentMandateId" :> {Str("pm1")})
          @@ ("paymentDetailsId" :> {Str("d1")})
          @@ ("paymentDetailsTotal" :> {WItem, WItemBad})
          @@ ("paymentResponse" :> {WResponse, WResponseFull, WResponseBad})
          @@ ("merchantAgent" :> {Str("m1")})
          @@ ("timestamp" :> {T1}))

PaymentMandateInputs ==
  Objects(("paymentMandateContents" :> PaymentMandateContentsInputs)
          @@ ("userAuthorization" :> {Str("vp"), Num(7)})
          @@ ("user_authorization" :> {Str("vp")}))

WTaskNotFound ==
  Obj(("code" :> Num(TaskNotFoundCode)) @@ ("message" :> Str(TaskNotFoundMessage)))

ResponseInputs ==
  Objects(("jsonrpc" :> {Str("2.0"), Str("1.0")})
          @@ ("id" :> {Id1, Str("zz")})
          @@ ("result" :> {WTask("working"), WTask("bogus"), Str("x")})
          @@ ("error" :> {WTaskNotFound,
                          Obj(("code" :> Num(TaskNotFoundCode))
                              @@ ("message" :> Str(TaskNotFoundMessage))
                              @@ ("data" :> Str("detail"))),
                          Obj(("code" :> Num(TaskNotFoundCode))
                              @@ ("message" :> Str("gone"))),
                          Str("x")}))

\* the thirteen method names of the specification, and other names
ListedMethods ==
  { "message/send", "message/stream", "tasks/get", "tasks/cancel", "tasks/list",
    "tasks/feedback", "contexts/list", "contexts/clear",
    "tasks/pushNotification/set", "tasks/pushNotification/get",
    "tasks/resubscribe", "tasks/pushNotificationConfig/list",
    "tasks/pushNotificationConfig/delete" }

OtherMethods == {"bogus", "tasks/Get", "tasks/delete"}

WPushConfig ==
  Obj(("id" :> Id1)
      @@ ("pushNotificationConfig" :> Obj(("id" :> Id2) @@ ("url" :> Str("https://x/y")))))

WSendParams ==
  Obj(("configuration" :> Obj(("acceptedOutputModes" :> Arr(<<Str("text")>>))))
      @@ ("message" :> WMsg))

ParamsInputs ==
  { Obj(("taskId" :> Id1)),
    Obj(("taskId" :> Id1Upper) @@ ("historyLength" :> Num(5))),
    Obj(("task_id" :> Id1)),
    Obj(("feedback" :> Str("x"))),
    Obj(("taskId" :> Id1) @@ ("feedback" :> Str("x"))),
    Obj(("taskId" :> Num(7))),
    Obj(("contextId" :> Id2)),
    Obj(("id" :> Id1)),
    Obj(("id" :> Id1) @@ ("pushNotificationConfigId" :> Id2)),
    WPushConfig,
    WSendParams,
    EmptyObj,
    Str("x") }

RequestInputs ==
  Objects(("jsonrpc" :> {Str("2.0"), Str("1.0")})
          @@ ("id" :> {Id1, Id2, Str("zz")})
          @@ ("method" :> StrLits(ListedMethods \cup OtherMethods) \cup {Num(1)})
          @@ ("params" :> ParamsInputs))

\* the thirteen codes of the specification
ListedCodes ==
  { -32700, -32600, -32601, -32602, -32603, -32001, -32002, -32003, -32004,
    -32005, -32006, -32007, -32008 }

WError(code, message) == Obj(("code" :> Num(code)) @@ ("message" :> Str(message)))

\* the error of every alias, as the alias spells it
CanonicalErrors == {WError(ErrorTable[i].code, ErrorTable[i].message) : i \in DOMAIN ErrorTable}

ErrorInputs ==
  Objects(("code" :> {Num(c) : c \in ListedCodes \cup {1}} \cup {Str("-32601")})
          @@ ("message" :> {Str(ErrorTable[i].message) : i \in DOMAIN ErrorTable}
                             \cup {Str("gone"), Num(0)})
          @@ ("data" :> {Str("detail"), Obj(("taskId" :> Id1))}))

WContext ==
  Obj(("contextId" :> Id2) @@ ("kind" :> Str("context")) @@ ("role" :> Str("owner"))
      @@ ("createdAt" :> T1) @@ ("updatedAt" :> T2))

AnyResponseInputs ==
  Objects(("jsonrpc" :> {Str("2.0"), Str("1.0")})
          @@ ("id" :> {Id1, Id2, Str("zz")})
          @@ ("result" :> {WTask("working"), WMsg, Arr(<<WTask("working")>>),
                           Arr(<<WContext>>), WContext, WPushConfig,
                           Obj(("status" :> Str("recorded"))), Str("x")})
          @@ ("error" :> CanonicalErrors
                           \cup {WError(-32001, "gone"), WError(1, "m"),
                                 Obj(("code" :> Num(-32601))), Str("x"),
                                 Obj(("code" :> WError(-32003, ErrorEntry("ContextNotFoundError").message))
                                     @@ ("message" :> WError(-32004, ErrorEntry("ContextNotCancelableError").message)))}))

(***************************************************************************)
(* Initialisation of the module: its top-level statements in order.  A     *)
(* statement looks up, in order, the names of its decorators, of its base   *)
(* list and of the values it assigns (annotations are not evaluated, under  *)
(* `from __future__ import annotations`), then binds its names.             *)
(***************************************************************************)
ModuleBody ==
  <<
    [line |-> 8, binds |-> {"_annotations"},
     uses |-> <<>>],
    [line |-> 10, binds |-> {"Annotated", "Any", "Literal", "List", "TypeVar", "Union", "Dict"},
     uses |-> <<>>],
    [line |-> 11, binds |-> {"UUID"},
     uses |-> <<>>],
    [line |-> 13, binds |-> {"pydantic"},
     uses |-> <<>>],
    [line |-> 14, binds |-> {"Discriminator", "Field"},
     uses |-> <<>>],
    [line |-> 15, binds |-> {"to_camel"},
     uses |-> <<>>],
    [line |-> 16, binds |-> {"Required", "NotRequired", "TypeAlias", "TypedDict"},
     uses |-> <<>>],
    [line |-> 24, binds |-> {"ResultT"},
     uses |-> <<"TypeVar">>],
    [line |-> 25, binds |-> {"ErrorT"},
     uses |-> <<"TypeVar">>],
    [line |-> 27, binds |-> {"Role"},
     uses |-> <<"Literal">>],
    [line |-> 29, binds |-> {"TaskState"},
     uses |-> <<"Literal">>],
    [line |-> 48, binds |-> {"NegotiationStatus"},
     uses |-> <<"Literal">>],
    [line |-> 55, binds |-> {"NegotiationSessionStatus"},
     uses |-> <<"Literal">>],
    [line |-> 62, binds |-> {"TrustLevel"},
     uses |-> <<"Literal">>],
    [line |-> 75, binds |-> {"IdentityProvider"},
     uses |-> <<"Literal">>],
    [line |-> 83, binds |-> {"CONTACT_ADDRESS_DATA_KEY"},
     uses |-> <<>>],
    [line |-> 84, binds |-> {"PAYMENT_METHOD_DATA_DATA_KEY"},
     uses |-> <<>>],
    [line |-> 85, binds |-> {"CART_MANDATE_DATA_KEY"},
     uses |-> <<>>],
    [line |-> 86, binds |-> {"INTENT_MANDATE_DATA_KEY"},
     uses |-> <<>>],
    [line |-> 87, binds |-> {"PAYMENT_MANDATE_DATA_KEY"},
     uses |-> <<>>],
    [line |-> 94, binds |-> {"TextPart"},
     uses |-> <<"pydantic", "to_camel", "TypedDict">>],
    [line |-> 110, binds |-> {"FileWithBytes"},
     uses |-> <<"pydantic", "to_camel", "TypedDict">>],
    [line |-> 127, binds |-> {"FileWithUri"},
     uses |-> <<"pydantic", "to_camel", "FileWithBytes">>],
    [line |-> 135, binds |-> {"FilePart"},
     uses |-> <<"pydantic", "to_camel", "TextPart">>],
    [line |-> 151, binds |-> {"DataPart"},
     uses |-> <<"TextPart">>],
    [line |-> 164, binds |-> {"Part"},
     uses |-> <<"Annotated", "Union", "Field", "TextPart", "FilePart", "DataPart">>],
    [line |-> 171, binds |-> {"Artifact"},
     uses |-> <<"pydantic", "to_camel", "TypedDict">>],
    [line |-> 209, binds |-> {"Message"},
     uses |-> <<"pydantic", "to_camel", "TypedDict">>],
    [line |-> 266, binds |-> {"HTTPAuthSecurityScheme"},
     uses |-> <<"pydantic", "to_camel", "TypedDict">>],
    [line |-> 283, binds |-> {"APIKeySecurityScheme"},
     uses |-> <<"pydantic", "to_camel", "TypedDict">>],
    [line |-> 300, binds |-> {"OAuth2SecurityScheme"},
     uses |-> <<"pydantic", "to_camel", "TypedDict">>],
    [line |-> 314, binds |-> {"OpenIdConnectSecurityScheme"},
     uses |-> <<"pydantic", "to_camel", "TypedDict">>],
    [line |-> 328, binds |-> {"MutualTLSSecurityScheme"},
     uses |-> <<"pydantic", "to_camel", "TypedDict">>],
    [line |-> 338, binds |-> {"SecurityScheme"},
     uses |-> <<"Annotated", "Union", "Discriminator", "HTTPAuthSecurityScheme", "APIKeySecurityScheme", "OAuth2SecurityScheme", "OpenIdConnectSecurityScheme", "MutualTLSSecurityScheme">>],
    [line |-> 356, binds |-> {"PushNotificationConfig"},
     uses |-> <<"pydantic", "to_camel", "TypedDict">>],
    [line |-> 376, binds |-> {"PushNotificationAuthenticationInfo"},
     uses |-> <<"pydantic", "to_camel", "TypedDict">>],
    [line |-> 387, binds |-> {"TaskPushNotificationConfig"},
     uses |-> <<"pydantic", "to_camel", "TypedDict">>],
    [line |-> 402, binds |-> {"TaskStatus"},
     uses |-> <<"pydantic", "to_camel", "TypedDict", "Field">>],
    [line |-> 413, binds |-> {"Task"},
     uses |-> <<"pydantic", "to_camel", "TypedDict">>],
    [line |-> 469, binds |-> {"TaskStatusUpdateEvent"},
     uses |-> <<"pydantic", "to_camel", "TypedDict">>],
    [line |-> 496, binds |-> {"TaskArtifactUpdateEvent"},
     uses |-> <<"pydantic", "to_camel", "TypedDict">>],
    [line |-> 525, binds |-> {"TaskSendParams"},
     uses |-> <<"pydantic", "to_camel", "TypedDict">>],
    [line |-> 545, binds |-> {"TaskIdParams"},
     uses |-> <<"pydantic", "to_camel", "TypedDict">>],
    [line |-> 556, binds |-> {"TaskQueryParams"},
     uses |-> <<"pydantic", "to_camel", "TaskIdParams">>],
    [line |-> 564, binds |-> {"ListTasksParams"},
     uses |-> <<"pydantic", "to_camel", "TypedDict">>],
    [line |-> 575, binds |-> {"TaskFeedbackParams"},
     uses |-> <<"pydantic", "to_camel", "TypedDict">>],
    [line |-> 592, binds |-> {"MessageSendConfiguration"},
     uses |-> <<"pydantic", "to_camel", "TypedDict">>],
    [line |-> 609, binds |-> {"MessageSendParams"},
     uses |-> <<"pydantic", "to_camel", "TypedDict">>],
    [line |-> 623, binds |-> {"ListTaskPushNotificationConfigParams"},
     uses |-> <<"pydantic", "to_camel", "TypedDict">>],
    [line |-> 634, binds |-> {"DeleteTaskPushNotificationConfigParams"},
     uses |-> <<"pydantic", "to_camel", "TypedDict">>],
    [line |-> 653, binds |-> {"Context"},
     uses |-> <<"pydantic", "to_camel", "TypedDict", "Field">>],
    [line |-> 737, binds |-> {"ContextIdParams"},
     uses |-> <<"pydantic", "to_camel", "TypedDict">>],
    [line |-> 748, binds |-> {"ContextQueryParams"},
     uses |-> <<"pydantic", "to_camel", "ContextIdParams">>],
    [line |-> 756, binds |-> {"ListContextsParams"},
     uses |-> <<"pydantic", "to_camel", "TypedDict">>],
    [line |-> 772, binds |-> {"NegotiationProposal"},
     uses |-> <<"pydantic", "to_camel", "TypedDict">>],
    [line |-> 795, binds |-> {"NegotiationContext"},
     uses |-> <<"pydantic", "to_camel", "TypedDict">>],
    [line |-> 816, binds |-> {"ContactAddress"},
     uses |-> <<"pydantic", "to_camel", "TypedDict">>],
    [line |-> 850, binds |-> {"PaymentCurrencyAmount"},
     uses |-> <<"pydantic", "to_camel", "TypedDict">>],
    [line |-> 861, binds |-> {"PaymentItem"},
     uses |-> <<"pydantic", "to_camel", "TypedDict">>],
    [line |-> 878, binds |-> {"PaymentShippingOption"},
     uses |-> <<"pydantic", "to_camel", "TypedDict">>],
    [line |-> 895, binds |-> {"PaymentOptions"},
     uses |-> <<"pydantic", "to_camel", "TypedDict">>],
    [line |-> 915, binds |-> {"PaymentMethodData"},
     uses |-> <<"pydantic", "to_camel", "TypedDict">>],
    [line |-> 926, binds |-> {"PaymentDetailsModifier"},
     uses |-> <<"pydantic", "to_camel", "TypedDict">>],
    [line |-> 943, binds |-> {"PaymentDetailsInit"},
     uses |-> <<"pydantic", "to_camel", "TypedDict">>],
    [line |-> 966, binds |-> {"PaymentRequest"},
     uses |-> <<"pydantic", "to_camel", "TypedDict">>],
    [line |-> 983, binds |-> {"PaymentResponse"},
     uses |-> <<"pydantic", "to_camel", "TypedDict">>],
    [line |-> 1012, binds |-> {"IntentMandate"},
     uses |-> <<"pydantic", "to_camel", "TypedDict">>],
    [line |-> 1051, binds |-> {"CartContents"},
     uses |-> <<"pydantic", "to_camel", "TypedDict">>],
    [line |-> 1081, binds |-> {"CartMandate"},
     uses |-> <<"pydantic", "to_camel", "TypedDict">>],
    [line |-> 1110, binds |-> {"PaymentMandateContents"},
     uses |-> <<"pydantic", "to_camel", "TypedDict">>],
    [line |-> 1133, binds |-> {"PaymentMandate"},
     uses |-> <<"pydantic", "to_camel", "TypedDict">>],
    [line |-> 1169, binds |-> {"AgentExecutionCost"},
     uses |-> <<"pydantic", "to_camel", "TypedDict">>],
    [line |-> 1189, binds |-> {"ExecutionRequest"},
     uses |-> <<"pydantic", "to_camel", "TypedDict">>],
    [line |-> 1212, binds |-> {"ExecutionResponse"},
     uses |-> <<"pydantic", "to_camel", "TypedDict">>],
    [line |-> 1244, binds |-> {"CodeT"},
     uses |-> <<"TypeVar", "int">>],
    [line |-> 1245, binds |-> {"MessageT"},
     uses |-> <<"TypeVar", "str">>],
    [line |-> 1247, binds |-> {"Method"},
     uses |-> <<"TypeVar">>],
    [line |-> 1248, binds |-> {"Params"},
     uses |-> <<"TypeVar">>],
    [line |-> 1251, binds |-> {"JSONRPCMessage"},
     uses |-> <<"TypedDict">>],
    [line |-> 1258, binds |-> {"JSONRPCRequest"},
     uses |-> <<"JSONRPCMessage", "Generic", "Method", "Params">>],
    [line |-> 1265, binds |-> {"JSONRPCError"},
     uses |-> <<"TypedDict", "Generic", "CodeT", "MessageT">>],
    [line |-> 1273, binds |-> {"JSONRPCResponse"},
     uses |-> <<"JSONRPCMessage", "Generic", "ResultT", "ErrorT">>],
    [line |-> 1280, binds |-> {"JSONParseError"},
     uses |-> <<"JSONRPCError", "Literal">>],
    [line |-> 1286, binds |-> {"InvalidRequestError"},
     uses |-> <<"JSONRPCError", "Literal">>],
    [line |-> 1292, binds |-> {"MethodNotFoundError"},
     uses |-> <<"JSONRPCError", "Literal">>],
    [line |-> 1298, binds |-> {"InvalidParamsError"},
     uses |-> <<"JSONRPCError", "Literal">>],
    [line |-> 1304, binds |-> {"InternalError"},
     uses |-> <<"JSONRPCError", "Literal">>],
    [line |-> 1310, binds |-> {"TaskNotFoundError"},
     uses |-> <<"JSONRPCError", "Literal">>],
    [line |-> 1316, binds |-> {"TaskNotCancelableError"},
     uses |-> <<"JSONRPCError", "Literal">>],
    [line |-> 1322, binds |-> {"ContextNotFoundError"},
     uses |-> <<"JSONRPCError", "Literal">>],
    [line |-> 1328, binds |-> {"ContextNotCancelableError"},
     uses |-> <<"JSONRPCError", "Literal">>],
    [line |-> 1334, binds |-> {"PushNotificationNotSupportedError"},
     uses |-> <<"JSONRPCError", "Literal">>],
    [line |-> 1340, binds |-> {"UnsupportedOperationError"},
     uses |-> <<"JSONRPCError", "Literal">>],
    [line |-> 1346, binds |-> {"ContentTypeNotSupportedError"},
     uses |-> <<"JSONRPCError", "Literal">>],
    [line |-> 1352, binds |-> {"InvalidAgentResponseError"},
     uses |-> <<"JSONRPCError", "Literal">>],
    [line |-> 1364, binds |-> {"SendMessageRequest"},
     uses |-> <<"JSONRPCRequest", "MessageSendParams", "Literal">>],
    [line |-> 1365, binds |-> {"SendMessageResponse"},
     uses |-> <<"JSONRPCResponse", "Union", "JSONRPCError", "Task", "Message", "Any">>],
    [line |-> 1367, binds |-> {"StreamMessageRequest"},
     uses |-> <<"JSONRPCRequest", "MessageSendParams", "Literal">>],
    [line |-> 1368, binds |-> {"StreamMessageResponse"},
     uses |-> <<"JSONRPCResponse", "Union", "JSONRPCError", "Task", "Message", "Any">>],
    [line |-> 1370, binds |-> {"GetTaskRequest"},
     uses |-> <<"JSONRPCRequest", "TaskQueryParams", "Literal">>],
    [line |-> 1371, binds |-> {"GetTaskResponse"},
     uses |-> <<"JSONRPCResponse", "Task", "TaskNotFoundError">>],
    [line |-> 1373, binds |-> {"CancelTaskRequest"},
     uses |-> <<"JSONRPCRequest", "TaskIdParams", "Literal">>],
    [line |-> 1374, binds |-> {"CancelTaskResponse"},
     uses |-> <<"JSONRPCResponse", "Task", "Union", "TaskNotCancelableError", "TaskNotFoundError">>],
    [line |-> 1376, binds |-> {"ListTasksRequest"},
     uses |-> <<"JSONRPCRequest", "ListTasksParams", "Literal">>],
    [line |-> 1377, binds |-> {"ListTasksResponse"},
     uses |-> <<"JSONRPCResponse", "List", "Task", "Union", "TaskNotFoundError", "TaskNotCancelableError">>],
    [line |-> 1379, binds |-> {"TaskFeedbackRequest"},
     uses |-> <<"JSONRPCRequest", "TaskFeedbackParams", "Literal">>],
    [line |-> 1380, binds |-> {"TaskFeedbackResponse"},
     uses |-> <<"JSONRPCResponse", "TaskNotFoundError", "Dict", "str">>],
    [line |-> 1382, binds |-> {"ListContextsRequest"},
     uses |-> <<"JSONRPCRequest", "ListContextsParams", "Literal">>],
    [line |-> 1383, binds |-> {"ListContextsResponse"},
     uses |-> <<"JSONRPCResponse", "List", "Context", "Union", "ContextNotFoundError", "ContextNotCancelableError">>],
    [line |-> 1385, binds |-> {"ClearContextsRequest"},
     uses |-> <<"JSONRPCRequest", "ContextIdParams", "Literal">>],
    [line |-> 1386, binds |-> {"ClearContextsResponse"},
     uses |-> <<"JSONRPCResponse", "Context", "JSONRPCError", "ContextNotFoundError", "ContextNotCancelableError">>],
    [line |-> 1388, binds |-> {"SetTaskPushNotificationRequest"},
     uses |-> <<"JSONRPCRequest", "TaskPushNotificationConfig", "Literal">>],
    [line |-> 1389, binds |-> {"SetTaskPushNotificationResponse"},
     uses |-> <<"JSONRPCResponse", "TaskPushNotificationConfig", "PushNotificationNotSupportedError">>],
    [line |-> 1391, binds |-> {"GetTaskPushNotificationRequest"},
     uses |-> <<"JSONRPCRequest", "TaskIdParams", "Literal">>],
    [line |-> 1392, binds |-> {"GetTaskPushNotificationResponse"},
     uses |-> <<"JSONRPCResponse", "TaskPushNotificationConfig", "PushNotificationNotSupportedError">>],
    [line |-> 1394, binds |-> {"ResubscribeTaskRequest"},
     uses |-> <<"JSONRPCRequest", "TaskIdParams", "Literal">>],
    [line |-> 1395, binds |-> {"ResubscribeTaskResponse"},
     uses |-> <<"JSONRPCResponse", "Task", "Union", "TaskNotCancelableError", "TaskNotFoundError">>],
    [line |-> 1397, binds |-> {"ListTaskPushNotificationConfigRequest"},
     uses |-> <<"JSONRPCRequest", "ListTaskPushNotificationConfigParams", "Literal">>],
    [line |-> 1400, binds |-> {"ListTaskPushNotificationConfigResponse"},
     uses |-> <<"JSONRPCResponse", "TaskPushNotificationConfig", "PushNotificationNotSupportedError">>],
    [line |-> 1402, binds |-> {"DeleteTaskPushNotificationConfigRequest"},
     uses |-> <<"JSONRPCRequest", "DeleteTaskPushNotificationConfigParams", "Literal">>],
    [line |-> 1405, binds |-> {"DeleteTaskPushNotificationConfigResponse"},
     uses |-> <<"JSONRPCResponse", "TaskPushNotificationConfig", "PushNotificationNotSupportedError">>],
    [line |-> 1409, binds |-> {"PebblingRequest"},
     uses |-> <<"Annotated", "Union", "Discriminator", "SendMessageRequest", "StreamMessageRequest", "GetTaskRequest", "CancelTaskRequest", "ListTasksRequest", "TaskFeedbackRequest", "ListContextsRequest", "ClearContextsRequest", "SetTaskPushNotificationRequest", "GetTaskPushNotificationRequest", "ResubscribeTaskRequest", "ListTaskPushNotificationConfigRequest", "DeleteTaskPushNotificationConfigRequest">>],
    [line |-> 1428, binds |-> {"PebblingResponse"},
     uses |-> <<"Union", "SendMessageResponse", "StreamMessageResponse", "GetTaskResponse", "CancelTaskResponse", "ListTasksResponse", "TaskFeedbackResponse", "ListContextsResponse", "ClearContextsResponse", "SetTaskPushNotificationResponse", "GetTaskPushNotificationResponse", "ResubscribeTaskResponse", "ListTaskPushNotificationConfigResponse", "DeleteTaskPushNotificationConfigResponse">>],
    [line |-> 1444, binds |-> {"pebble_request_ta"},
     uses |-> <<"TypeAdapter", "PebblingRequest">>],
    [line |-> 1445, binds |-> {"pebble_response_ta"},
     uses |-> <<"TypeAdapter", "PebblingResponse">>],
    [line |-> 1446, binds |-> {"send_message_request_ta"},
     uses |-> <<"TypeAdapter", "SendMessageRequest">>],
    [line |-> 1447, binds |-> {"send_message_response_ta"},
     uses |-> <<"TypeAdapter", "SendMessageResponse">>],
    [line |-> 1448, binds |-> {"stream_message_request_ta"},
     uses |-> <<"TypeAdapter", "StreamMessageRequest">>],
    [line |-> 1449, binds |-> {"stream_message_response_ta"},
     uses |-> <<"TypeAdapter", "StreamMessageResponse">>]
  >>

\* the names of the builtins module that the statements use
Builtins == {"int", "str"}

(***************************************************************************)
(* The state: the last operation, its input and its outcome.  The          *)
(* validators keep nothing between calls, so every call starts from the    *)
(* idle state and Return goes back to it.                                  *)
(***************************************************************************)
Init ==
  /\ op = "none"
  /\ raw = Null
  /\ res = Ok(Null)
  /\ task = Null
  /\ before = "none"
  /\ pending = Null
  /\ stmt = 1
  /\ looked = 0
  /\ namespace = {}
  /\ raised = "none"

\* one of the values in inputs arrives and is validated against ty
Decode(name, ty, inputs) ==
  /\ op = "none"
  /\ \E v \in inputs :
       /\ op' = name
       /\ raw' = v
       /\ res' = Validate(ty, v)
  /\ UNCHANGED <<task, before, pending, stmt, looked, namespace, raised>>

DecodePart == Decode("Part", Part, PartInputs)

DecodeArtifact == Decode("Artifact", TTd("Artifact"), ArtifactInputs)

DecodeMessage == Decode("Message", TTd("Message"), MessageInputs)

DecodeSecurityScheme ==
  Decode("SecurityScheme", SecurityScheme, SecuritySchemeInputs)

DecodeTaskStatus ==
  Decode("TaskStatus", TTd("TaskStatus"), TaskStatusInputs)

DecodeTask == Decode("Task", TTd("Task"), TaskInputs)

DecodeContext == Decode("Context", TTd("Context"), ContextInputs)

DecodeIntentMandate ==
  Decode("IntentMandate", TTd("IntentMandate"), IntentMandateInputs)

DecodeCartMandate ==
  Decode("CartMandate", TTd("CartMandate"), CartMandateInputs)

DecodePaymentMandate ==
  Decode("PaymentMandate", TTd("PaymentMandate"), PaymentMandateInputs)

DecodeGetTaskResponse ==
  Decode("GetTaskResponse", TTd("GetTaskResponse"), ResponseInputs)

Return ==
  /\ op # "none"
  /\ op' = "none"
  /\ raw' = Null
  /\ res' = Ok(Null)
  /\ UNCHANGED <<task, before, pending, stmt, looked, namespace, raised>>

Next ==
  \/ DecodePart
  \/ DecodeArtifact
  \/ DecodeMessage
  \/ DecodeSecurityScheme
  \/ DecodeTaskStatus
  \/ DecodeTask
  \/ DecodeContext
  \/ DecodeIntentMandate
  \/ DecodeCartMandate
  \/ DecodePaymentMandate
  \/ DecodeGetTaskResponse
  \/ Return

Spec == Init /\ [][Next]_vars

\* the declared type an operation validates against
TypeOf(name) ==
  CASE name = "Part" -> Part
    [] name = "SecurityScheme" -> SecurityScheme
    [] OTHER -> TTd(name)

(***************************************************************************)
(* The status of a task as its status-update events notify it.  A Task is  *)
(* received once; every accepted TaskStatusUpdateEvent for it carries the  *)
(* status the task has from then on.                                       *)
(***************************************************************************)
StateOf(t) == t[2]["status"][2]["state"][2]

WEvent(id, s, final) ==
  Obj(("taskId" :> id) @@ ("contextId" :> Id2) @@ ("final" :> Bool(final))
      @@ ("kind" :> Str("status-update")) @@ ("status" :> WStatus(s)))

CreatedTasks == {WTask(s) : s \in ListedStates \cup {"bogus"}}

EventInputs ==
  {WEvent(id, s, f) : id \in {Id1, Id2}, s \in ListedStates \cup {"bogus"}, f \in BOOLEAN}
    \cup {Obj(("task_id" :> Id1) @@ ("context_id" :> Id2) @@ ("final" :> Bool(TRUE))
              @@ ("kind" :> Str("status-update")) @@ ("status" :> WStatus("working")))}

\* a status update that honours terminal states: it leaves a task whose state
\* is terminal as it is
ApplyStatus_absorbing(t, ev) ==
  IF StateOf(t) \in {"completed", "canceled", "failed", "rejected", "negotiation-bid-lost"}
  THEN t
  ELSE Obj([t[2] EXCEPT !["status"] = ev[2]["status"]])

\* the task after a change of its status: the event's status replaces it
ApplyStatus(t, ev) == Obj([t[2] EXCEPT !["status"] = ev[2]["status"]])

ReceiveTask ==
  /\ task = Null
  /\ \E v \in CreatedTasks :
       LET r == Validate(TTd("Task"), v)
       IN  /\ op' = "Task"
           /\ raw' = v
           /\ res' = r
           /\ task' = IF r.errs = {} THEN r.val ELSE task
           /\ UNCHANGED <<before, pending, stmt, looked, namespace, raised>>

StatusUpdate ==
  /\ task # Null
  /\ \E v \in EventInputs :
       LET r == Validate(TTd("TaskStatusUpdateEvent"), v)
       IN  /\ op' = "TaskStatusUpdateEvent"
           /\ raw' = v
           /\ res' = r
           /\ task' = IF r.errs = {} /\ r.val[2]["task_id"] = task[2]["id"]
                      THEN ApplyStatus(task, r.val)
                      ELSE task
           /\ before' = StateOf(task)
           /\ UNCHANGED <<pending, stmt, looked, namespace, raised>>

NextLifecycle ==
  \/ ReceiveTask
  \/ StatusUpdate

SpecLifecycle == Init /\ [][NextLifecycle]_vars

(***************************************************************************)
(* The JSON-RPC types on their own: a request is validated against the     *)
(* union of the requests, a response against the union of the responses    *)
(* or against the response alias of message/send, an error object against  *)
(* an error alias.                                                         *)
(***************************************************************************)
\* pebble_request_ta.validate_python
DecodeRequest == Decode("PebblingRequest", PebblingRequest, RequestInputs)

\* pebble_response_ta.validate_python
DecodeResponse == Decode("PebblingResponse", PebblingResponse, AnyResponseInputs)

\* send_message_response_ta.validate_python
DecodeSendMessageResponse ==
  Decode("SendMessageResponse", TTd("SendMessageResponse"), AnyResponseInputs)

\* a response validated against the response alias of contexts/clear
DecodeClearContextsResponse ==
  Decode("ClearContextsResponse", TTd("ClearContextsResponse"), AnyResponseInputs)

\* an error object validated against one of the error aliases
DecodeError ==
  \E i \in DOMAIN ErrorTable :
    Decode(ErrorTable[i].name, TTd(ErrorTable[i].name), ErrorInputs)

NextRpc ==
  \/ DecodeRequest
  \/ DecodeResponse
  \/ DecodeSendMessageResponse
  \/ DecodeClearContextsResponse
  \/ DecodeError
  \/ Return

SpecRpc == Init /\ [][NextRpc]_vars

(***************************************************************************)
(* A request and the response that follows it.  The types keep nothing of  *)
(* a request: the id of the accepted request is kept here, next to them,   *)
(* until a response has been validated.                                    *)
(***************************************************************************)
ReceiveRequest ==
  /\ op = "none"
  /\ pending = Null
  /\ \E v \in RequestInputs :
       LET r == Validate(PebblingRequest, v)
       IN  /\ op' = "PebblingRequest"
           /\ raw' = v
           /\ res' = r
           /\ pending' = IF r.errs = {} THEN r.val[2]["id"] ELSE pending
  /\ UNCHANGED <<task, before, stmt, looked, namespace, raised>>

Dispatched ==
  /\ op = "PebblingRequest"
  /\ op' = "none"
  /\ raw' = Null
  /\ res' = Ok(Null)
  /\ UNCHANGED <<task, before, pending, stmt, looked, namespace, raised>>

SupplyResponse ==
  /\ op = "none"
  /\ pending # Null
  /\ \E v \in AnyResponseInputs :
       /\ op' = "PebblingResponse"
       /\ raw' = v
       /\ res' = Validate(PebblingResponse, v)
  /\ UNCHANGED <<task, before, pending, stmt, looked, namespace, raised>>

Answered ==
  /\ op = "PebblingResponse"
  /\ op' = "none"
  /\ raw' = Null
  /\ res' = Ok(Null)
  /\ pending' = Null
  /\ UNCHANGED <<task, before, stmt, looked, namespace, raised>>

NextExchange ==
  \/ ReceiveRequest
  \/ Dispatched
  \/ SupplyResponse
  \/ Answered

SpecExchange == Init /\ [][NextExchange]_vars

(***************************************************************************)
(* Execution of the top-level statements when the module is imported.      *)
(***************************************************************************)
\* the statement stmt looks up its next name, which is bound
LookUp ==
  /\ raised = "none"
  /\ stmt <= Len(ModuleBody)
  /\ looked < Len(ModuleBody[stmt].uses)
  /\ ModuleBody[stmt].uses[looked + 1] \in namespace \cup Builtins
  /\ looked' = looked + 1
  /\ UNCHANGED <<op, raw, res, task, before, pending, stmt, namespace, raised>>

\* the next name is bound neither in the module nor in builtins: NameError,
\* which ends the import
RaiseNameError ==
  /\ raised = "none"
  /\ stmt <= Len(ModuleBody)
  /\ looked < Len(ModuleBody[stmt].uses)
  /\ ModuleBody[stmt].uses[looked + 1] \notin namespace \cup Builtins
  /\ raised' = ModuleBody[stmt].uses[looked + 1]
  /\ UNCHANGED <<op, raw, res, task, before, pending, stmt, looked, namespace>>

\* every name of the statement is looked up: it binds its names
Bind ==
  /\ raised = "none"
  /\ stmt <= Len(ModuleBody)
  /\ looked = Len(ModuleBody[stmt].uses)
  /\ namespace' = namespace \cup ModuleBody[stmt].binds
  /\ stmt' = stmt + 1
  /\ looked' = 0
  /\ UNCHANGED <<op, raw, res, task, before, pending, raised>>

NextImport ==
  \/ LookUp
  \/ RaiseNameError
  \/ Bind

SpecImport == Init /\ [][NextImport]_vars

(***************************************************************************)
(* Properties.                                                             *)
(***************************************************************************)
Accepted == res.errs = {}

\* the errors of a recognised variant whose fields do not fit it
ShapeErrors ==
  {"missing", "string_type", "dict_type", "list_type", "float_type",
   "bool_type", "int_type", "literal_error", "uuid_type", "uuid_parsing"}

RoundTripOps ==
  {"Part", "Artifact", "Message", "Task", "Context", "IntentMandate",
   "CartMandate", "PaymentMandate"}

\* C1: for every value x that decoding yields for Part, Artifact, Message,
\* Task, Context and the mandate types, decoding the encoding of x gives x
\* back: decode(encode(x)) = x, with encode the serialisation by alias.
C1_RoundTrip ==
  (op \in RoundTripOps /\ Accepted)
    => Validate(TypeOf(op), Serialize(TypeOf(op), res.val)) = Ok(res.val)

\* a message was decoded whose internal key context_id is written contextId,
\* and whose identifier arrived in another spelling than the one written back
C1_Witness ==
  /\ op = "Message"
  /\ Accepted
  /\ "context_id" \in Keys(res.val)
  /\ "contextId" \in Keys(Serialize(TypeOf(op), res.val))
  /\ "context_id" \notin Keys(Serialize(TypeOf(op), res.val))
  /\ raw[2]["messageId"] = Id1Upper
  /\ Serialize(TypeOf(op), res.val) # raw
  /\ Len(res.val[2]["parts"][2]) = MaxList

KindIs(v, kind) == Has(v, "kind") /\ v[2]["kind"] = Str(kind)

\* C2: a file part and a data part need no text key: an input of kind file
\* with a valid file, or of kind data with a valid data, and without text, is
\* accepted, and the accepted file part has the content of its file.
C2_FileAndDataNeedNoText ==
  (/\ op = "Part"
   /\ raw[1] = "o"
   /\ "text" \notin Keys(raw)
   /\ \/ /\ KindIs(raw, "file")
         /\ Has(raw, "file")
         /\ Validate(TUnion(<<"FileWithBytes", "FileWithUri">>), raw[2]["file"]).errs = {}
      \/ /\ KindIs(raw, "data")
         /\ Has(raw, "data")
         /\ raw[2]["data"][1] = "o")
    => /\ Accepted
       /\ KindIs(raw, "file") => res.val[2]["file"][2]["bytes"] = raw[2]["file"][2]["bytes"]

\* the file of a part input is an object whose keys, where present, are strings
WellTypedFile(f) ==
  /\ f[1] = "o"
  /\ \A k \in Keys(f) : f[2][k][1] = "s"

\* C3: a file is accepted if and only if it has exactly one content locator,
\* bytes without uri or uri without bytes, and an accepted file carries
\* exactly one of them.
C3_ExactlyOneLocator ==
  (/\ op = "Part"
   /\ KindIs(raw, "file")
   /\ Has(raw, "text")
   /\ raw[2]["text"][1] = "s"
   /\ Has(raw, "file")
   /\ WellTypedFile(raw[2]["file"]))
    => /\ Accepted <=> (("bytes" \in Keys(raw[2]["file"])) # ("uri" \in Keys(raw[2]["file"])))
       /\ Accepted =>
            (("bytes" \in Keys(res.val[2]["file"])) # ("uri" \in Keys(res.val[2]["file"])))

\* C4: in a decoded Part the kind alone determines the payload keys: a text
\* part carries neither file nor data, a file part neither text nor data, a
\* data part neither text nor file.
C4_KindDeterminesPayload ==
  (op = "Part" /\ Accepted)
    => LET has(k) == k \in Keys(res.val)
       IN  /\ KindIs(res.val, "text") => ~has("file") /\ ~has("data")
           /\ KindIs(res.val, "file") => ~has("text") /\ ~has("data")
           /\ KindIs(res.val, "data") => ~has("text") /\ ~has("file")

\* the payload key of a variant and the JSON type its value must have
PayloadKey(kind) ==
  CASE kind = "text" -> "text"
    [] kind = "file" -> "file"
    [] kind = "data" -> "data"

PayloadType(kind) == IF kind = "text" THEN "s" ELSE "o"

\* C5: a Part whose kind is recognised and whose variant's payload key is
\* absent or mistyped is rejected with a shape error (not a discriminant
\* error) and yields no Part; so is every input of kind text with a data key
\* and no text key.
C5_ShapeMismatchRejected ==
  \A kind \in {"text", "file", "data"} :
    (/\ op = "Part"
     /\ KindIs(raw, kind)
     /\ \/ PayloadKey(kind) \notin Keys(raw)
        \/ raw[2][PayloadKey(kind)][1] # PayloadType(kind))
      => /\ ~Accepted
         /\ res.val = Null
         /\ res.errs \subseteq ShapeErrors

\* kind text with the data variant's key and no text key: rejected as missing
C5_Witness ==
  /\ op = "Part"
  /\ KindIs(raw, "text")
  /\ Has(raw, "data")
  /\ raw[2]["data"][1] = "o"
  /\ "text" \notin Keys(raw)
  /\ res.errs = {"missing"}

\* the discriminant key of a tagged union and its registered values
Discriminant(name) == IF name = "Part" THEN "kind" ELSE "type"

Registered(name) ==
  IF name = "Part" THEN StrLits({"text", "file", "data"})
  ELSE StrLits({"http", "apiKey", "oauth2", "openIdConnect", "mutualTLS"})

\* C6: decoding a Part (by kind) or a SecurityScheme (by type) whose
\* discriminant key is missing, or has a value that is not registered, fails
\* with the discriminant error and yields no variant, whatever other keys the
\* input carries.
C6_UnknownDiscriminantRejected ==
  (op \in {"Part", "SecurityScheme"} /\ raw[1] = "o")
    => LET d == Discriminant(op)
       IN  /\ d \notin Keys(raw) => res = Err("union_tag_not_found")
           /\ (d \in Keys(raw) /\ raw[2][d] \notin Registered(op))
                => res = Err("union_tag_invalid")

\* a security scheme with an unregistered type and the keys of the http
\* variant is rejected for its type
C6_Witness ==
  /\ op = "SecurityScheme"
  /\ Has(raw, "type")
  /\ raw[2]["type"] = Str("bogus")
  /\ Has(raw, "scheme")
  /\ res = Err("union_tag_invalid")

\* C7: the state set is closed: a TaskStatus with a timestamp decodes if and
\* only if its state is one of the sixteen listed strings; any other string
\* is rejected as an invalid enum value and is never coerced to "unknown".
C7_ClosedStateSet ==
  (/\ op = "TaskStatus"
   /\ Has(raw, "timestamp")
   /\ raw[2]["timestamp"][1] = "s"
   /\ "message" \notin Keys(raw) \/ raw[2]["message"] = WMsg
   /\ Has(raw, "state")
   /\ raw[2]["state"][1] = "s")
    => /\ Accepted <=> raw[2]["state"][2] \in ListedStates
       /\ Accepted => res.val[2]["state"] = raw[2]["state"]
       /\ ~Accepted => res = Err("literal_error")

C7_Witness ==
  /\ op = "TaskStatus"
  /\ Has(raw, "timestamp")
  /\ Has(raw, "state")
  /\ raw[2]["state"] = Str("bogus")
  /\ res = Err("literal_error")

Terminal == {"completed", "canceled", "failed", "rejected", "negotiation-bid-lost"}

C10_ResultXorError ==
  (op = "GetTaskResponse" /\ Accepted)
    => (("result" \in Keys(res.val)) # ("error" \in Keys(res.val)))

(***************************************************************************)
(* Requests.                                                               *)
(***************************************************************************)
\* a request object whose method is present and is none of the listed names
UnregisteredMethod ==
  /\ op = "PebblingRequest"
  /\ Has(raw, "method")
  /\ raw[2]["method"] \notin StrLits(ListedMethods)

\* the response that carries the error of alias e and no result
IsErrorResponse(x, e) ==
  /\ x[1] = "o"
  /\ "result" \notin Keys(x)
  /\ Has(x, "error")
  /\ x[2]["error"][1] = "o"
  /\ Has(x[2]["error"], "code")
  /\ x[2]["error"][2]["code"] = Num(ErrorEntry(e).code)

\* C11 as stated: handling a request whose method is not registered gives a
\* MethodNotFoundError response (code -32601).
C11_MethodNotFoundResponse ==
  UnregisteredMethod => (Accepted /\ IsErrorResponse(res.val, "MethodNotFoundError"))

\* C11: a request whose method is not one of the registered names is rejected
\* on its method alone, as an invalid tag of the union of the requests: params
\* is not decoded (no error of params is raised, whatever params is) and no
\* request value is produced.
C11_UnregisteredMethodRejected ==
  UnregisteredMethod => res = Err("union_tag_invalid")

C11_Witness ==
  /\ op = "PebblingRequest"
  /\ Has(raw, "method")
  /\ raw[2]["method"] = Str("bogus")
  /\ Has(raw, "params")
  /\ raw[2]["params"] = Str("x")
  /\ res = Err("union_tag_invalid")

\* the parameter type the aliases bind to a method name
ParamsOf(m) ==
  MethodTable[CHOOSE i \in DOMAIN MethodTable : MethodTable[i].method = m].params

\* a request object with a listed method whose params is not of the type bound
\* to the method
BadParams ==
  /\ op = "PebblingRequest"
  /\ Has(raw, "method")
  /\ raw[2]["method"] \in StrLits(ListedMethods)
  /\ Has(raw, "params")
  /\ Validate(ParamsOf(raw[2]["method"][2]), raw[2]["params"]).errs # {}

\* a tasks/get request whose params has no task id
GetTaskWithoutTaskId ==
  /\ op = "PebblingRequest"
  /\ Has(raw, "method")
  /\ raw[2]["method"] = Str("tasks/get")
  /\ Has(raw, "params")
  /\ ~Has(raw[2]["params"], "taskId")

\* C12 as stated: handling a request with a registered method whose params do
\* not decode as the bound parameter type gives an InvalidParamsError response
\* (code -32602).
C12_InvalidParamsResponse ==
  BadParams => (Accepted /\ IsErrorResponse(res.val, "InvalidParamsError"))

\* C12: a request with a registered method whose params do not decode as the
\* parameter type bound to that method is rejected with the errors of its
\* params and no request value is produced; a tasks/get request whose params
\* has no taskId, such as {"feedback":"x"}, is rejected this way.
C12_BadParamsRejected ==
  /\ BadParams =>
       /\ ~Accepted
       /\ Validate(ParamsOf(raw[2]["method"][2]), raw[2]["params"]).errs \subseteq res.errs
  /\ GetTaskWithoutTaskId => ~Accepted

C12_Witness ==
  /\ op = "PebblingRequest"
  /\ Has(raw, "jsonrpc")
  /\ Has(raw, "id")
  /\ Has(raw, "method")
  /\ raw[2]["method"] = Str("tasks/get")
  /\ Has(raw, "params")
  /\ raw[2]["params"] = Obj(("feedback" :> Str("x")))
  /\ res = Err("missing")

\* a request object with a well-formed envelope and a listed method
WellFormedRequest ==
  /\ op = "PebblingRequest"
  /\ raw[1] = "o"
  /\ {"jsonrpc", "id", "method", "params"} \subseteq Keys(raw)
  /\ raw[2]["jsonrpc"] = Str("2.0")
  /\ ValidateUuid(raw[2]["id"]).errs = {}
  /\ raw[2]["method"] \in StrLits(ListedMethods)

\* C13: the method registry is a function on exactly the thirteen listed
\* method names: the names are pairwise distinct, each is bound to one request
\* alias with one parameter type and to one response alias; a request is
\* accepted only under a listed name, and exactly when its params are of the
\* type bound to its name, which is the type they are decoded with.
C13_RegistryIsFunction ==
  /\ Len(MethodTable) = Cardinality(ListedMethods)
  /\ {MethodTable[i].method : i \in DOMAIN MethodTable} = ListedMethods
  /\ Cardinality({RequestNames[i] : i \in DOMAIN RequestNames}) = Len(MethodTable)
  /\ Cardinality({ResponseNames[i] : i \in DOMAIN ResponseNames}) = Len(MethodTable)
  /\ (op = "PebblingRequest" /\ Accepted) =>
       /\ raw[2]["method"] \in StrLits(ListedMethods)
       /\ res.val[2]["method"] = raw[2]["method"]
       /\ res.val[2]["params"]
            = Validate(ParamsOf(raw[2]["method"][2]), raw[2]["params"]).val
  /\ WellFormedRequest =>
       (Accepted <=> Validate(ParamsOf(raw[2]["method"][2]), raw[2]["params"]).errs = {})

C13_Witness ==
  /\ op = "PebblingRequest"
  /\ Accepted
  /\ raw[2]["method"] = Str("tasks/pushNotificationConfig/delete")
  /\ raw[2]["params"] = Obj(("id" :> Id1) @@ ("pushNotificationConfigId" :> Id2))
  /\ res.val[2]["params"]
       = Obj(("id" :> Uuid(Id1[2])) @@ ("push_notification_config_id" :> Uuid(Id2[2])))

(***************************************************************************)
(* Responses.                                                              *)
(***************************************************************************)
\* C14: a response is accepted for tasks/get only if it carries a result of the
\* registered result type (Task) or an error of the registered error variant
\* (TaskNotFoundError).
C14_OnlyRegisteredResultOrError ==
  (op = "GetTaskResponse" /\ Accepted) =>
    \/ /\ Has(raw, "result")
       /\ Validate(TTd("Task"), raw[2]["result"]).errs = {}
    \/ /\ Has(raw, "error")
       /\ Validate(TTd("TaskNotFoundError"), raw[2]["error"]).errs = {}

\* C16 as stated: the id of the response equals the id of the request it
\* answers, and every accepted request and response has jsonrpc "2.0".
C16_IdEchoed ==
  (op = "PebblingResponse" /\ Accepted) =>
    /\ res.val[2]["id"] = pending
    /\ res.val[2]["jsonrpc"] = Str("2.0")

\* C16: every accepted request and response has jsonrpc equal to the literal
\* "2.0" and an id that is a UUID, kept as the UUID its input spells; the id
\* of a response is whatever its input carries.
C16_VersionAndId ==
  (op \in {"PebblingRequest", "PebblingResponse"} /\ Accepted) =>
    /\ raw[2]["jsonrpc"] = Str("2.0")
    /\ res.val[2]["jsonrpc"] = Str("2.0")
    /\ res.val[2]["id"] = ValidateUuid(raw[2]["id"]).val

C16_Witness ==
  /\ op = "PebblingResponse"
  /\ Accepted
  /\ pending = Uuid(Id1[2])
  /\ raw[2]["id"] = Id2
  /\ res.val[2]["id"] = Uuid(Id2[2])
  /\ res.val[2]["jsonrpc"] = Str("2.0")

(***************************************************************************)
(* Error taxonomy.                                                         *)
(***************************************************************************)
\* an error object that carries a code of the taxonomy with a message that is
\* not the message of that code
AlteredMessage(x) ==
  /\ x[1] = "o"
  /\ {"code", "message"} \subseteq Keys(x)
  /\ \E i \in DOMAIN ErrorTable :
       /\ x[2]["code"] = Num(ErrorTable[i].code)
       /\ x[2]["message"] # Str(ErrorTable[i].message)

\* C17 as stated: an error object that carries a taxonomy code together with
\* any message other than the canonical message of that code is rejected,
\* wherever it is validated: as an error of its own or as the error of a
\* response.
C17_AlteredMessageRejected ==
  /\ (op \in ErrorNames /\ AlteredMessage(raw)) => ~Accepted
  /\ (/\ op \in {"PebblingResponse", "SendMessageResponse"}
      /\ Has(raw, "error")
      /\ AlteredMessage(raw[2]["error"])) => ~Accepted

\* C17: each error alias is bound to one code and one canonical message and
\* the codes are pairwise distinct: an error object validated against an error
\* alias is accepted exactly when it carries the code and the message of that
\* alias, so a taxonomy code with any other message is rejected by every
\* alias; data is the only key whose value varies between accepted errors.
C17_CanonicalMessage ==
  /\ Cardinality({ErrorTable[i].code : i \in DOMAIN ErrorTable}) = Len(ErrorTable)
  /\ (op \in ErrorNames /\ raw[1] = "o" /\ {"code", "message"} \subseteq Keys(raw)) =>
       (Accepted <=> /\ raw[2]["code"] = Num(ErrorEntry(op).code)
                     /\ raw[2]["message"] = Str(ErrorEntry(op).message))
  /\ (op \in ErrorNames /\ Accepted) =>
       /\ Keys(res.val) \subseteq {"code", "message", "data"}
       /\ res.val[2]["code"] = Num(ErrorEntry(op).code)
       /\ res.val[2]["message"] = Str(ErrorEntry(op).message)
       /\ Has(raw, "data") => res.val[2]["data"] = raw[2]["data"]
  /\ (op \in ErrorNames /\ AlteredMessage(raw)) => res = Err("literal_error")

C17_Witness ==
  /\ op = "MethodNotFoundError"
  /\ Has(raw, "code")
  /\ raw[2]["code"] = Num(-32601)
  /\ Has(raw, "message")
  /\ raw[2]["message"] = Str("gone")
  /\ res = Err("literal_error")

\* C18 as stated: the taxonomy is a fixed table of 16 codes, each a (code,
\* canonical message) pair.
C18_SixteenCodes ==
  /\ Cardinality({ErrorTable[i].code : i \in DOMAIN ErrorTable}) = 16
  /\ (op \in ErrorNames /\ Accepted) =>
       \E i \in DOMAIN ErrorTable :
         /\ res.val[2]["code"] = Num(ErrorTable[i].code)
         /\ res.val[2]["message"] = Str(ErrorTable[i].message)

\* C18: the taxonomy is a fixed table of 13 codes, the five protocol codes and
\* the eight domain codes the specification lists, each a (code, canonical
\* message) pair: the error of each pair is accepted by its alias, and every
\* accepted error is one of the thirteen pairs.
C18_ThirteenCodes ==
  /\ Len(ErrorTable) = 13
  /\ {ErrorTable[i].code : i \in DOMAIN ErrorTable} = ListedCodes
  /\ Cardinality(ListedCodes) = 13
  /\ (op \in ErrorNames /\ Accepted) =>
       \E i \in DOMAIN ErrorTable :
         /\ res.val[2]["code"] = Num(ErrorTable[i].code)
         /\ res.val[2]["message"] = Str(ErrorTable[i].message)
  /\ (op \in ErrorNames /\ raw = WError(ErrorEntry(op).code, ErrorEntry(op).message)) =>
       Accepted

C18_Witness ==
  /\ op = "InvalidAgentResponseError"
  /\ Accepted
  /\ res.val[2]["code"] = Num(-32008)
  /\ "data" \notin Keys(res.val)

(***************************************************************************)
(* Wire names.                                                             *)
(***************************************************************************)
\* the wire name of every declared key of class e, in declaration order
WireNames(e, fs) == [i \in DOMAIN fs |-> ValName(e, fs[i].n)]

WireNamesOf(e) == WireNames(e, Fields(e))

\* a spelled name in lowerCamelCase: a lower-case letter, then letters and
\* digits only
LowerCamel(s) ==
  /\ Len(s) > 0
  /\ IsLower(s[1])
  /\ \A i \in DOMAIN s : IsAlnum(s[i])

\* no two keys share a wire name, and every wire name is lowerCamelCase
OneToOneLowerCamel(w, spelling) ==
  /\ \A i, j \in DOMAIN w : w[i] = w[j] => i = j
  /\ \A i \in DOMAIN w : LowerCamel(spelling[w[i]])

\* an API key scheme written with the lowerCamelCase key `in`
WApiKeyIn ==
  Obj(("type" :> Str("apiKey")) @@ ("name" :> Str("X-Key")) @@ ("in" :> Str("header")))

\* C21: for every entity the mapping from internal field names to wire names
\* is one-to-one and every wire name is lowerCamelCase without underscore,
\* fields already in wire form (mimeType), fields with a trailing underscore
\* (in_) and DataPart, which has no alias configuration of its own, included;
\* so an API key scheme that names its location under `in` is accepted.
C21_WireNamesLowerCamel ==
  /\ \A e \in AliasGenerated \cup {"DataPart"} :
       OneToOneLowerCamel(WireNamesOf(e), K)
  /\ (op = "SecurityScheme" /\ raw = WApiKeyIn) => Accepted

(***************************************************************************)
(* Message parts.                                                          *)
(***************************************************************************)
\* a message complete in every required key, with no part
WMsgNoParts ==
  Obj(("messageId" :> Id1) @@ ("contextId" :> Id2) @@ ("taskId" :> Id1)
      @@ ("kind" :> Str("message")) @@ ("role" :> Str("user"))
      @@ ("parts" :> Arr(<<>>)))

\* C22 as stated: every accepted Message has a non-empty parts sequence;
\* decoding a message whose parts is the empty list fails.
C22_PartsNonEmpty ==
  /\ (op = "Message" /\ Accepted) => Len(res.val[2]["parts"][2]) > 0
  /\ (op = "Message" /\ Has(raw, "parts") /\ raw[2]["parts"] = Arr(<<>>)) => ~Accepted

\* C22: parts is a required key of Message holding a list of parts of any
\* length, the empty list included: a message without the key is rejected as
\* missing, an accepted message keeps as many parts as it was given, and a
\* message complete in its other keys whose parts is the empty list is accepted
\* with an empty parts list.
C22_PartsRequiredAnyLength ==
  (op = "Message" /\ raw[1] = "o") =>
    /\ "parts" \notin Keys(raw) => "missing" \in res.errs
    /\ Accepted =>
         /\ Has(res.val, "parts")
         /\ res.val[2]["parts"][1] = "a"
         /\ Len(res.val[2]["parts"][2]) = Len(raw[2]["parts"][2])
    /\ raw = WMsgNoParts => (Accepted /\ res.val[2]["parts"] = Arr(<<>>))

C22_Witness ==
  /\ op = "Message"
  /\ Accepted
  /\ raw = WMsgNoParts
  /\ res.val[2]["parts"] = Arr(<<>>)

(***************************************************************************)
(* Context timestamps.                                                     *)
(***************************************************************************)
\* the two instants drawn as inputs, the earlier first
ListedInstants == << T1, T2 >>

Earlier(a, b) ==
  \E i, j \in DOMAIN ListedInstants :
    i < j /\ ListedInstants[i] = a /\ ListedInstants[j] = b

\* a context complete in every required key, updated before it was created
WContextBackwards ==
  Obj(("contextId" :> Id1) @@ ("kind" :> Str("context")) @@ ("role" :> Str("user"))
      @@ ("createdAt" :> T2) @@ ("updatedAt" :> T1))

\* C23 as stated: every accepted Context satisfies updatedAt >= createdAt; a
\* context whose updatedAt is earlier than its createdAt is rejected.
C23_UpdatedNotBeforeCreated ==
  (op = "Context" /\ Accepted) =>
    ~Earlier(res.val[2]["updated_at"], res.val[2]["created_at"])

\* C23: createdAt and updatedAt are two required strings that validation keeps
\* as given and neither parses nor compares: a context without one of them is
\* rejected as missing, an accepted context carries both unchanged, and a
\* context complete in its required keys is accepted whatever the two strings
\* are, updatedAt earlier than createdAt included.
C23_TimestampsRequiredNotCompared ==
  (op = "Context" /\ raw[1] = "o") =>
    /\ ~({"createdAt", "updatedAt"} \subseteq Keys(raw)) => "missing" \in res.errs
    /\ Accepted =>
         /\ res.val[2]["created_at"] = raw[2]["createdAt"]
         /\ res.val[2]["updated_at"] = raw[2]["updatedAt"]
         /\ res.val[2]["updated_at"][1] = "s"
    /\ (/\ Keys(raw) = Keys(WContextBackwards)
        /\ \A k \in Keys(raw) \ {"createdAt", "updatedAt"} :
             raw[2][k] = WContextBackwards[2][k]) => Accepted

C23_Witness ==
  /\ op = "Context"
  /\ Accepted
  /\ raw = WContextBackwards
  /\ Earlier(res.val[2]["updated_at"], res.val[2]["created_at"])

(***************************************************************************)
(* Module initialisation.                                                  *)
(***************************************************************************)
\* the six type adapters of the module
Adapters ==
  { "pebble_request_ta", "pebble_response_ta", "send_message_request_ta",
    "send_message_response_ta", "stream_message_request_ta",
    "stream_message_response_ta" }

\* C24: module initialisation runs to completion: no statement raises
\* NameError, every name used in a base list, an alias or an assignment being
\* bound by an earlier statement, and once the last statement has run the 13
\* request aliases, the 13 response aliases and the six type adapters are
\* bound.
C24_InitialisationCompletes ==
  /\ raised = "none"
  /\ stmt > Len(ModuleBody) =>
       /\ {RequestNames[i] : i \in DOMAIN RequestNames} \subseteq namespace
       /\ {ResponseNames[i] : i \in DOMAIN ResponseNames} \subseteq namespace
       /\ Adapters \subseteq namespace

(***************************************************************************)
(* Mandates.                                                               *)
(***************************************************************************)
\* C25: every accepted CartMandate carries a merchant authorization and every
\* accepted PaymentMandate carries a user authorization; a mandate that
\* consists of its contents alone is not accepted.
C25_MandateCarriesAuthorization ==
  /\ (op = "CartMandate" /\ Accepted) => Has(res.val, "merchant_authorization")
  /\ (op = "PaymentMandate" /\ Accepted) => Has(res.val, "user_authorization")
  /\ (op \in {"CartMandate", "PaymentMandate"} /\ raw[1] = "o"
        /\ Cardinality(Keys(raw)) = 1) => ~Accepted

(***************************************************************************)
(* Errors of contexts/clear.                                               *)
(***************************************************************************)
\* the error object x is ContextNotFoundError or ContextNotCancelableError:
\* code -32003 or -32004 with the canonical message of that code
IsContextError(x) ==
  /\ x[1] = "o"
  /\ {"code", "message"} \subseteq Keys(x)
  /\ \E n \in {"ContextNotFoundError", "ContextNotCancelableError"} :
       /\ x[2]["code"] = Num(ErrorEntry(n).code)
       /\ x[2]["message"] = Str(ErrorEntry(n).message)

\* C26: the error variants registered for contexts/clear are exactly
\* ContextNotFoundError and ContextNotCancelableError: an error response to
\* contexts/clear, well formed in jsonrpc and id, is accepted if and only if
\* its error has code -32003 or -32004 with the canonical message of that code.
C26_ClearContextsErrorVariants ==
  (/\ op = "ClearContextsResponse"
   /\ raw[1] = "o"
   /\ Keys(raw) = {"jsonrpc", "id", "error"}
   /\ raw[2]["jsonrpc"] = Str("2.0")
   /\ raw[2]["id"] \in {Id1, Id2}) =>
    (Accepted <=> IsContextError(raw[2]["error"]))

====
